---- MODULE Spec2Model ----
(***************************************************************************)
(* Tonk: the rules engine and the turn/phase state machine of Game.js,     *)
(* with Deck, Player, Spread, Card and rules.js as it uses them.           *)
(*                                                                         *)
(* A card is a number 0..51: suit index * 13 + rank index, in the order    *)
(* generateDeck builds them (SUITS x RANKS).  Card.equals compares suit    *)
(* and rank, i.e. the number.  Players are seat indices 0..n-1, as         *)
(* currentPlayerIndex; NoPlayer stands for null.                           *)
(***************************************************************************)
EXTENDS Integers, Sequences, FiniteSets, TLC

\* ------------------------------------------------------------- constants
NUM_SUITS == 4
NUM_RANKS == 13
CARDS_PER_PLAYER == 5
INITIAL_TONK_MIN == 49
INITIAL_TONK_MAX == 50
MIN_SPREAD_SIZE == 3
MAX_BOOK_SIZE == 4
MAX_PLAYERS == 4
MIN_PLAYERS == 2
MATCH_POINT_LIMIT == 100
STARTING_CHIPS == 1000
ANTE_AMOUNT == 10
RAISE_OPTIONS == << 10, 25, 50, 100 >>

PHASES_PRE_GAME == "pre-game"
PHASES_INITIAL_TONK_CHECK == "initial-tonk-check"
PHASES_START_OF_TURN == "start-of-turn"
PHASES_DRAW == "draw"
PHASES_ACTION == "action"
PHASES_DISCARD == "discard"
PHASES_GAME_OVER == "game-over"

WIN_TONK == "tonk"
WIN_INITIAL_TONK == "initial-tonk"
WIN_KNOCK == "knock"
WIN_CAUGHT == "caught"
WIN_STOCK_EMPTY == "stock-empty"
NoCondition == "none"

NoPlayer == -1

\* ---------------------------------------------------------------- bounds
\* rounds of a match that are explored (roundNumber is unbounded in the code)
MaxRounds == 2
\* turns of a match that are explored under Spec; SpecStock plays a round to
\* the end of the stock
MaxTurns == 1
\* voided deals in a row (the recursion depth of dealAndCheckInitialTonk)
MaxRedeals == 1
\* lays and hits recorded in turnActions within one turn
MaxTurnActions == 2
\* rounds of a match that are explored under SpecMatch
MaxMatchRounds == 3
\* longest card list passed to Spread.validate
MaxListLen == 4
\* longest hand passed to findPossibleSpreads and shouldKnock
MaxHandLen == 5
\* registrations, of all events together, that are explored
MaxListeners == 3
\* endTurn calls of a match after which the human player of GameUI no longer
\* acts
MaxUiTurns == 3
\* turns of a round that are explored under SpecPile
MaxPileTurns == 3

\* ------------------------------------------------------------------ Card
Cards == 0 .. (NUM_SUITS * NUM_RANKS - 1)

Suit(c) == c \div NUM_RANKS

RankIndex(c) == c % NUM_RANKS

\* calculateValue: A = 1, 2..10 = face value, J/Q/K = 10
CardValue(c) ==
  IF RankIndex(c) = 0 THEN 1
  ELSE IF RankIndex(c) >= 10 THEN 10
  ELSE RankIndex(c) + 1

CardOf(s, r) == s * NUM_RANKS + r

\* ------------------------------------------------------------- sequences
Range(s) == { s[i] : i \in 1 .. Len(s) }

Contains(s, c) == \E i \in 1 .. Len(s) : s[i] = c

\* no card twice in the list
IsDistinct(cs) == \A i, j \in 1 .. Len(cs) : i < j => cs[i] # cs[j]

\* Array.findIndex, 1-based; 0 when absent
FindIndex(s, c) ==
  IF Contains(s, c) THEN CHOOSE i \in 1 .. Len(s) : s[i] = c /\ \A j \in 1 .. (i - 1) : s[j] # c
  ELSE 0

RemoveAt(s, i) == SubSeq(s, 1, i - 1) \o SubSeq(s, i + 1, Len(s))

RECURSIVE Reverse(_)
Reverse(s) == IF s = << >> THEN << >> ELSE Reverse(Tail(s)) \o << Head(s) >>

\* insert c into a sequence sorted by rank index, after the elements that
\* do not compare greater (Array.prototype.sort is stable)
RECURSIVE InsertByRank(_, _)
InsertByRank(s, c) ==
  IF s = << >> THEN << c >>
  ELSE IF RankIndex(c) < RankIndex(Head(s)) THEN << c >> \o s
  ELSE << Head(s) >> \o InsertByRank(Tail(s), c)

\* [...cards].sort((a, b) => a.getRankIndex() - b.getRankIndex())
RECURSIVE SortByRank(_)
SortByRank(s) ==
  IF s = << >> THEN << >>
  ELSE InsertByRank(SortByRank(SubSeq(s, 1, Len(s) - 1)), s[Len(s)])

\* ---------------------------------------------------------------- Player
\* the card stays in the hand
RemoveNoCard(h, c) == h

\* removeCard: splice the first card equal to c; the hand is unchanged when absent
RemoveCard(h, c) == IF FindIndex(h, c) # 0 THEN RemoveAt(h, FindIndex(h, c)) ELSE h

\* removeCards: removeCard for each card of the list, absent ones skipped
RECURSIVE RemoveCards(_, _)
RemoveCards(h, cs) ==
  IF cs = << >> THEN h ELSE RemoveCards(RemoveCard(h, Head(cs)), Tail(cs))

\* calculatePoints
RECURSIVE CalculatePoints(_)
CalculatePoints(h) ==
  IF h = << >> THEN 0 ELSE CardValue(Head(h)) + CalculatePoints(Tail(h))

\* bet without the all-in clamp
BetAmountUnclamped(amount, have) == amount

\* bet: all-in clamp
BetAmount(amount, have) == IF amount < have THEN amount ELSE have

\* ----------------------------------------------------------------- rules
\* a lower bound off by one
HasInitialTonkFrom48(points) == points >= INITIAL_TONK_MIN - 1 /\ points <= INITIAL_TONK_MAX

HasInitialTonk(points) == points >= INITIAL_TONK_MIN /\ points <= INITIAL_TONK_MAX

\* seven cards each in a game of two
GetCardsPerPlayerByCount(n) == IF n = MIN_PLAYERS THEN CARDS_PER_PLAYER + 2 ELSE CARDS_PER_PLAYER

GetCardsPerPlayer(n) == CARDS_PER_PLAYER

\* ---------------------------------------------------------------- Spread
IsValidBook(cs) ==
  /\ Len(cs) >= MIN_SPREAD_SIZE
  /\ Len(cs) <= MAX_BOOK_SIZE
  /\ \A i \in 1 .. Len(cs) : RankIndex(cs[i]) = RankIndex(cs[1])

\* the run rule applied to the cards in the order given, without the sort
IsValidRunUnsorted(cs) ==
  /\ Len(cs) >= MIN_SPREAD_SIZE
  /\ \A i \in 1 .. Len(cs) : Suit(cs[i]) = Suit(cs[1])
  /\ \A i \in 2 .. Len(cs) : RankIndex(cs[i]) = RankIndex(cs[i - 1]) + 1

IsValidRun(cs) ==
  /\ Len(cs) >= MIN_SPREAD_SIZE
  /\ \A i \in 1 .. Len(cs) : Suit(cs[i]) = Suit(cs[1])
  /\ LET sorted == SortByRank(cs)
     IN \A i \in 2 .. Len(cs) : RankIndex(sorted[i]) = RankIndex(sorted[i - 1]) + 1

\* validate: the book rule first, then the run rule
ValidateType(cs) ==
  IF IsValidBook(cs) THEN "book" ELSE IF IsValidRun(cs) THEN "run" ELSE "invalid"

CanAddToBook(sp, c) ==
  /\ Len(sp.cards) < MAX_BOOK_SIZE
  /\ RankIndex(c) = RankIndex(sp.cards[1])

\* the ends of the run taken from the cards in the order held, without the sort
CanAddToRunUnsorted(sp, c) ==
  /\ Suit(c) = Suit(sp.cards[1])
  /\ \/ RankIndex(c) = RankIndex(sp.cards[1]) - 1
     \/ RankIndex(c) = RankIndex(sp.cards[Len(sp.cards)]) + 1

CanAddToRun(sp, c) ==
  /\ Suit(c) = Suit(sp.cards[1])
  /\ LET sorted == SortByRank(sp.cards)
     IN \/ RankIndex(c) = RankIndex(sorted[1]) - 1
        \/ RankIndex(c) = RankIndex(sorted[Len(sorted)]) + 1

CanAddCard(sp, c) ==
  IF sp.type = "book" THEN CanAddToBook(sp, c)
  ELSE IF sp.type = "run" THEN CanAddToRun(sp, c)
  ELSE FALSE

\* the elements of a set as a list, by ascending key
RECURSIVE OrderBy(_, _)
OrderBy(set, key) ==
  IF set = {} THEN << >>
  ELSE LET x == CHOOSE y \in set : \A z \in set : key[y] <= key[z]
       IN << x >> \o OrderBy(set \ {x}, key)

FirstIndex(cs, Test(_)) == CHOOSE i \in 1 .. Len(cs) : Test(cs[i]) /\ \A j \in 1 .. (i - 1) : ~Test(cs[j])

\* groupCardsByRank: the cards of one rank in the order held
GroupCardsByRank(cs, r) == SelectSeq(cs, LAMBDA c : RankIndex(c) = r)

\* Object.entries(byRank): the keys '2' .. '10' are integer indices and come
\* first in ascending order, then 'A', 'J', 'Q', 'K' in the order of insertion
RankKeys(cs) ==
  LET held == { RankIndex(cs[i]) : i \in 1 .. Len(cs) }
  IN OrderBy(held, [r \in held |->
                     IF r >= 1 /\ r <= 9 THEN r
                     ELSE NUM_RANKS + FirstIndex(cs, LAMBDA c : RankIndex(c) = r)])

\* groupCardsBySuit: the cards of one suit in the order held
GroupCardsBySuit(cs, su) == SelectSeq(cs, LAMBDA c : Suit(c) = su)

\* Object.entries(bySuit): the suits in the order of insertion
SuitKeys(cs) ==
  LET held == { Suit(cs[i]) : i \in 1 .. Len(cs) }
  IN OrderBy(held, [su \in held |-> FirstIndex(cs, LAMBDA c : Suit(c) = su)])

\* the scan of findConsecutiveRuns from the i-th sorted card on
RECURSIVE ScanRuns(_, _, _, _)
ScanRuns(sorted, i, currentRun, runs) ==
  IF i > Len(sorted)
  THEN IF Len(currentRun) >= MIN_SPREAD_SIZE THEN Append(runs, currentRun) ELSE runs
  ELSE IF RankIndex(sorted[i]) = RankIndex(sorted[i - 1]) + 1
       THEN ScanRuns(sorted, i + 1, Append(currentRun, sorted[i]), runs)
       ELSE ScanRuns(sorted, i + 1, << sorted[i] >>,
                     IF Len(currentRun) >= MIN_SPREAD_SIZE THEN Append(runs, currentRun)
                     ELSE runs)

\* the scan that forgets the run still open at the end of the cards
RECURSIVE ScanRunsClosed(_, _, _, _)
ScanRunsClosed(sorted, i, currentRun, runs) ==
  IF i > Len(sorted) THEN runs
  ELSE IF RankIndex(sorted[i]) = RankIndex(sorted[i - 1]) + 1
       THEN ScanRunsClosed(sorted, i + 1, Append(currentRun, sorted[i]), runs)
       ELSE ScanRunsClosed(sorted, i + 1, << sorted[i] >>,
                           IF Len(currentRun) >= MIN_SPREAD_SIZE THEN Append(runs, currentRun)
                           ELSE runs)

FindConsecutiveRunsClosed(cs) ==
  IF Len(cs) < MIN_SPREAD_SIZE THEN << >>
  ELSE LET sorted == SortByRank(cs) IN ScanRunsClosed(sorted, 2, << sorted[1] >>, << >>)

\* findConsecutiveRuns on the cards of one suit
FindConsecutiveRuns(cs) ==
  IF Len(cs) < MIN_SPREAD_SIZE THEN << >>
  ELSE LET sorted == SortByRank(cs) IN ScanRuns(sorted, 2, << sorted[1] >>, << >>)

\* the run candidates of the suits keys[k], keys[k + 1], ...
RECURSIVE RunCandidates(_, _, _)
RunCandidates(cs, keys, k) ==
  IF k > Len(keys) THEN << >>
  ELSE LET runs == FindConsecutiveRuns(GroupCardsBySuit(cs, keys[k]))
       IN [i \in 1 .. Len(runs) |-> [type |-> "run", cards |-> runs[i]]]
            \o RunCandidates(cs, keys, k + 1)

\* findPossibleSpreads(cards): the book candidates, then the run candidates
FindPossibleSpreads(cs) ==
  LET ranks == SelectSeq(RankKeys(cs),
                         LAMBDA r : Len(GroupCardsByRank(cs, r)) >= MIN_SPREAD_SIZE)
  IN [k \in 1 .. Len(ranks) |->
        [type |-> "book",
         cards |-> SubSeq(GroupCardsByRank(cs, ranks[k]), 1,
                          IF Len(GroupCardsByRank(cs, ranks[k])) < MAX_BOOK_SIZE
                          THEN Len(GroupCardsByRank(cs, ranks[k])) ELSE MAX_BOOK_SIZE)]]
       \o RunCandidates(cs, SuitKeys(cs), 1)

\* countSpreadPotential
CountSpreadPotential(h) == Len(FindPossibleSpreads(h))

\* knocking on any hand of at most 5 points
ShouldKnockUpToFive(h) == CalculatePoints(h) <= 5

\* ComputerPlayer.shouldKnock on the hand h
ShouldKnock(h) ==
  LET points == CalculatePoints(h)
  IN IF points <= 3 THEN TRUE
     ELSE IF points <= 5 THEN CountSpreadPotential(h) = 0 \/ Len(h) <= 2
     ELSE FALSE

\* the candidate found last, whatever its points
LastSpread(possibleSpreads) == possibleSpreads[Len(possibleSpreads)]

\* possibleSpreads.sort by points, highest first, then possibleSpreads[0]: the
\* sort is stable, so the first of the candidates with the most points
BestSpread(possibleSpreads) ==
  possibleSpreads[
    CHOOSE i \in 1 .. Len(possibleSpreads) :
      /\ \A j \in 1 .. Len(possibleSpreads) :
           CalculatePoints(possibleSpreads[j].cards) <= CalculatePoints(possibleSpreads[i].cards)
      /\ \A j \in 1 .. (i - 1) :
           CalculatePoints(possibleSpreads[j].cards) < CalculatePoints(possibleSpreads[i].cards)]

\* findAllSpreadsToLay: the best candidate of what is left of the hand, until
\* nothing is left to lay
RECURSIVE FindAllSpreadsToLay(_)
FindAllSpreadsToLay(remainingHand) ==
  LET possibleSpreads == FindPossibleSpreads(remainingHand)
  IN IF possibleSpreads = << >> THEN << >>
     ELSE LET best == BestSpread(possibleSpreads)
          IN << best >> \o FindAllSpreadsToLay(RemoveCards(remainingHand, best.cards))

\* hit put into a list sorted by card value, highest first, behind the hits
\* of the same value
InsertHit(sorted, hit) ==
  LET k == Cardinality({ i \in 1 .. Len(sorted) :
                          CardValue(sorted[i].card) >= CardValue(hit.card) })
  IN SubSeq(sorted, 1, k) \o << hit >> \o SubSeq(sorted, k + 1, Len(sorted))

\* hits.sort((a, b) => b.card.value - a.card.value), a stable sort
RECURSIVE SortHits(_, _)
SortHits(hits, sorted) ==
  IF hits = << >> THEN sorted ELSE SortHits(Tail(hits), InsertHit(sorted, Head(hits)))

\* the hits of findHitOpportunities from the i-th spread of the table on,
\* spread by spread and, for a spread, in the order of the hand; a hit names
\* its spread by the round and its place on the table of that round
RECURSIVE HitsFrom(_, _, _, _)
HitsFrom(h, table, round, i) ==
  IF i > Len(table) THEN << >>
  ELSE LET fit == SelectSeq(h, LAMBDA c : CanAddCard(table[i], c))
       IN [k \in 1 .. Len(fit) |-> [card |-> fit[k], round |-> round, spread |-> i]]
            \o HitsFrom(h, table, round, i + 1)

\* findHitOpportunities(spreadsOnTable)
FindHitOpportunities(h, table, round) == SortHits(HitsFrom(h, table, round, 1), << >>)

\* helpsNearComplete(card)
HelpsNearComplete(h, card) ==
  LET sameRank == SelectSeq(h, LAMBDA c : RankIndex(c) = RankIndex(card))
      sameSuit == SelectSeq(h, LAMBDA c : Suit(c) = Suit(card))
      Diff(a, b) == IF RankIndex(a) < RankIndex(b) THEN RankIndex(b) - RankIndex(a)
                    ELSE RankIndex(a) - RankIndex(b)
  IN \/ Len(sameRank) >= 2
     \/ \E i \in 1 .. Len(sameSuit) :
          /\ Diff(sameSuit[i], card) = 1
          /\ \E j \in 1 .. Len(sameSuit) :
               /\ j # i
               /\ Diff(sameSuit[j], card) = 2 \/ Diff(sameSuit[j], sameSuit[i]) = 1

\* decideDraw(discardTop) with a card on the discard pile
DecideDraw(h, discardTop) ==
  IF Len(FindPossibleSpreads(h \o << discardTop >>)) > Len(FindPossibleSpreads(h))
  THEN "discard"
  ELSE IF HelpsNearComplete(h, discardTop) THEN "discard"
  ELSE IF CardValue(discardTop) <= 3
          /\ \E i \in 1 .. Len(h) : RankIndex(h[i]) = RankIndex(discardTop)
  THEN "discard"
  ELSE "deck"

\* getSpreadContributingCards: the cards of a rank held twice, and the cards
\* next to each other, one or two ranks apart, among the sorted cards of a suit
GetSpreadContributingCards(h) ==
  { c \in Range(h) : Len(GroupCardsByRank(h, RankIndex(c))) >= 2 }
    \cup UNION { LET sorted == SortByRank(GroupCardsBySuit(h, su))
                 IN UNION { { sorted[i], sorted[i + 1] } :
                            i \in { k \in 1 .. (Len(sorted) - 1) :
                                      RankIndex(sorted[k + 1]) - RankIndex(sorted[k]) \in {1, 2} } } :
                 su \in Range(SuitKeys(h)) }

\* sort by value, highest first, then [0]: the first of the cards of the
\* highest value
FirstHighest(cs) ==
  cs[CHOOSE i \in 1 .. Len(cs) :
       /\ \A j \in 1 .. Len(cs) : CardValue(cs[j]) <= CardValue(cs[i])
       /\ \A j \in 1 .. (i - 1) : CardValue(cs[j]) < CardValue(cs[i])]

\* discarding the first of the highest cards of the hand, protected or not
DecideDiscardOfAll(h) == FirstHighest(h)

\* decideDiscard on a hand that is not empty
DecideDiscard(h) ==
  LET nonSpreadCards == SelectSeq(h, LAMBDA c : c \notin GetSpreadContributingCards(h))
  IN IF nonSpreadCards # << >> THEN FirstHighest(nonSpreadCards) ELSE FirstHighest(h)

\* the card put in the place of the last card of the spread
AddCardOverLast(sp, c) == [sp EXCEPT !.cards = [@ EXCEPT ![Len(@)] = c]]

\* addCard: push, and re-sort a run
AddCard(sp, c) ==
  [sp EXCEPT !.cards = IF sp.type = "run" THEN SortByRank(sp.cards \o << c >>)
                       ELSE sp.cards \o << c >>]

\* new Spread(cards, type, owner): the cards are copied in the order given
NewSpread(cs, type, owner) == [cards |-> cs, type |-> type, owner |-> owner]

\* ------------------------------------------------------------------ Deck
\* generateDeck: suit by suit, rank by rank
GenerateDeck == [i \in 1 .. (NUM_SUITS * NUM_RANKS) |-> i - 1]

PlayerCounts == MIN_PLAYERS .. MAX_PLAYERS

Seats(n) == 0 .. (n - 1)

H == 0
D == 1
C == 2
S == 3

\* Deals the shuffle is made to produce: the hands of seats 0..3 and the card
\* flipped to the discard pile.  With n players the first n hands are dealt.
\*   play:   seat 0 holds a run of five (25 points) that the card flipped
\*           extends, seat 1 holds 21 points, seat 2 holds 48, seat 3 holds 31
\*   tie:    seats 0, 2 and 3 hold 22 points each, seat 1 holds 31
\*   tonk49: seat 0 holds 48, seat 1 holds 49
\*   tonk50: seat 0 holds 50, seat 1 holds 48, seat 2 holds 11
\*   tonks:  seat 0 holds 50 and seat 1 holds 49
DealPlay ==
  [hands |-> << << CardOf(S, 2), CardOf(S, 3), CardOf(S, 4), CardOf(S, 5), CardOf(S, 6) >>,
                << CardOf(H, 0), CardOf(D, 1), CardOf(C, 3), CardOf(H, 5), CardOf(D, 7) >>,
                << CardOf(H, 9), CardOf(H, 10), CardOf(H, 11), CardOf(H, 12), CardOf(C, 7) >>,
                << CardOf(C, 1), CardOf(D, 3), CardOf(C, 5), CardOf(D, 8), CardOf(C, 10) >> >>,
   seed |-> CardOf(S, 7)]

DealTie ==
  [hands |-> << << CardOf(D, 0), CardOf(C, 1), CardOf(S, 3), CardOf(D, 5), CardOf(C, 8) >>,
                << CardOf(H, 12), CardOf(H, 7), CardOf(S, 5), CardOf(D, 3), CardOf(C, 2) >>,
                << CardOf(S, 0), CardOf(D, 1), CardOf(C, 3), CardOf(H, 5), CardOf(S, 8) >>,
                << CardOf(C, 0), CardOf(S, 1), CardOf(H, 3), CardOf(C, 5), CardOf(H, 8) >> >>,
   seed |-> CardOf(D, 10)]

DealTonk49 ==
  [hands |-> << << CardOf(D, 9), CardOf(D, 10), CardOf(D, 11), CardOf(D, 12), CardOf(S, 7) >>,
                << CardOf(S, 9), CardOf(S, 10), CardOf(S, 11), CardOf(S, 12), CardOf(C, 8) >>,
                << CardOf(H, 0), CardOf(H, 1), CardOf(H, 2), CardOf(H, 3), CardOf(H, 4) >>,
                << CardOf(C, 0), CardOf(C, 1), CardOf(C, 2), CardOf(C, 3), CardOf(C, 4) >> >>,
   seed |-> CardOf(D, 0)]

DealTonk50 ==
  [hands |-> << << CardOf(H, 12), CardOf(D, 12), CardOf(C, 12), CardOf(S, 12), CardOf(H, 9) >>,
                << CardOf(H, 11), CardOf(D, 11), CardOf(C, 10), CardOf(S, 10), CardOf(D, 7) >>,
                << CardOf(H, 0), CardOf(H, 1), CardOf(H, 2), CardOf(H, 3), CardOf(C, 0) >>,
                << CardOf(S, 0), CardOf(S, 1), CardOf(S, 2), CardOf(S, 3), CardOf(S, 4) >> >>,
   seed |-> CardOf(D, 0)]

DealTonks ==
  [hands |-> << << CardOf(H, 12), CardOf(D, 12), CardOf(C, 12), CardOf(S, 12), CardOf(H, 9) >>,
                << CardOf(S, 9), CardOf(S, 10), CardOf(S, 11), CardOf(D, 11), CardOf(C, 8) >>,
                << CardOf(H, 0), CardOf(H, 1), CardOf(H, 2), CardOf(H, 3), CardOf(H, 4) >>,
                << CardOf(S, 0), CardOf(S, 1), CardOf(S, 2), CardOf(S, 3), CardOf(S, 4) >> >>,
   seed |-> CardOf(D, 0)]

DealsExplored == { DealPlay, DealTie, DealTonk49, DealTonk50, DealTonks }

\* a deal for the games played through GameUI: seat 1 holds a run of three
\* and two low diamonds that the 3 of diamonds of seat 0 completes, seat 2
\* holds a run of five, seat 3 holds a card that extends the run of seat 1
DealAi ==
  [hands |-> << << CardOf(D, 2), CardOf(C, 6), CardOf(D, 8), CardOf(C, 10), CardOf(D, 12) >>,
                << CardOf(S, 8), CardOf(S, 9), CardOf(S, 10), CardOf(D, 0), CardOf(D, 1) >>,
                << CardOf(H, 4), CardOf(H, 5), CardOf(H, 6), CardOf(H, 7), CardOf(H, 8) >>,
                << CardOf(S, 7), CardOf(H, 3), CardOf(C, 7), CardOf(D, 10), CardOf(C, 11) >> >>,
   seed |-> CardOf(D, 5)]

\* the shuffles explored under GameUI: none of them is voided
UiDeals == { DealAi, DealPlay }

\* the cards on top of the deck, first drawn first: one card per seat per
\* pass (Game.deal), then the card flipped to the discard pile
TopOfDeck(n, d) ==
  [i \in 1 .. (CARDS_PER_PLAYER * n) |-> d.hands[((i - 1) % n) + 1][((i - 1) \div n) + 1]]
    \o << d.seed >>

\* the cards of seq that are not in the set, in seq's order
RECURSIVE Without(_, _)
Without(seq, set) ==
  IF seq = << >> THEN << >>
  ELSE IF Head(seq) \in set THEN Without(Tail(seq), set)
  ELSE << Head(seq) >> \o Without(Tail(seq), set)

\* a permutation of the 52 cards; draw() pops from the end
DeckDealing(n, d) ==
  Without(GenerateDeck, Range(TopOfDeck(n, d))) \o Reverse(TopOfDeck(n, d))

\* new Deck(): generateDeck, then shuffle.  The outcomes of the shuffle that
\* are explored, for a game of n players.
ShuffledDecks == [n \in PlayerCounts |-> { DeckDealing(n, d) : d \in DealsExplored }]

UiDecks == [n \in PlayerCounts |-> { DeckDealing(n, d) : d \in UiDeals }]

\* the hand Game.deal gives seat p from a deck (top = last element): one card
\* per seat per pass
DealtHand(deck, n, p) ==
  [k \in 1 .. GetCardsPerPlayer(n) |-> deck[Len(deck) - ((k - 1) * n + p)]]

\* checkInitialTonk: the seats whose hand totals 49-50
CheckInitialTonk(h, n) == { p \in Seats(n) : HasInitialTonk(CalculatePoints(h[p])) }

\* Game.deal and checkInitialTonk on each deck explored: the hands, what is
\* left of the draw pile, the card flipped to the discard pile, and the seats
\* with an initial tonk
Dealing ==
  [n \in PlayerCounts |->
    [deck \in ShuffledDecks[n] \cup UiDecks[n] |->
      LET dealt == [p \in Seats(n) |-> DealtHand(deck, n, p)]
          taken == GetCardsPerPlayer(n) * n
      IN [hands |-> dealt,
          cards |-> SubSeq(deck, 1, Len(deck) - taken - 1),
          firstDiscard |-> deck[Len(deck) - taken],
          playersWithTonk |-> CheckInitialTonk(dealt, n)]]]

TonkCount(deck, n) == Cardinality(Dealing[n][deck].playersWithTonk)

\* the shuffles drawn at recursion depth `depth` of dealAndCheckInitialTonk:
\* a deal that is voided is drawn only while the depth is below MaxRedeals
DecksAt == [n \in PlayerCounts, depth \in 0 .. (MaxRedeals + 1) |->
              { deck \in ShuffledDecks[n] : depth < MaxRedeals \/ TonkCount(deck, n) <= 1 }]

\* ---------------------------------------------------------------- events
\* two of the events of the game
Events == {"turnStart", "gameOver"}

\* the callbacks registered: two that only record the call and one that
\* removes itself with off when it is called
Callbacks == {"a", "b", "once"}

\* the registrations of a callback dropped up to the first one only
RECURSIVE WithoutFirstCallback(_, _)
WithoutFirstCallback(list, cb) ==
  IF list = << >> THEN << >>
  ELSE IF Head(list) = cb THEN Tail(list)
  ELSE << Head(list) >> \o WithoutFirstCallback(Tail(list), cb)

\* filter(cb => cb !== callback)
WithoutCallback(list, cb) == SelectSeq(list, LAMBDA x : x # cb)

\* ----------------------------------------------------------------- state
VARIABLES
  numPlayers,          \* players.length
  cards,               \* deck.cards, the draw pile; the top is the last element
  discardPile,         \* deck.discardPile; the top is the last element
  hand,                \* seat -> player.hand
  chips,               \* seat -> player.chips
  currentBet,          \* seat -> player.currentBet
  spreadsOnTable,      \* sequence of spreads; player.spreads is the part a seat owns
  currentPlayerIndex,
  phase,
  winner,
  winCondition,
  gameOvers,           \* the payloads of the gameOver events emitted since the round's deal began
  hasDrawnThisTurn,
  turnActions,         \* the types of the actions recorded this turn
  matchScores,         \* seat -> cumulative points
  matchWinner,
  roundNumber,
  pot,
  highestBet,
  pc,                  \* "idle", or "redeal": inside dealAndCheckInitialTonk, about to recurse
  redealDepth,         \* recursion depth of dealAndCheckInitialTonk
  turnsPlayed,         \* endTurn calls since initialize
  lastOp,              \* the last operation that did not throw
  lastResult,          \* of the last call: "ok", "null" (returned null), "throw",
                       \* the value returned; "running" inside a redeal
  args,                \* what a caller outside a game passes to Spread: << cards >>
                       \* for validate, << spread, card >> for canAddCard
  eventListeners,      \* event -> the callbacks registered, in registration order
  delivered,           \* the callbacks invoked by the last emit, in invocation order
  ui                   \* GameUI: the handleAITurn calls suspended at a delay, oldest
                       \* first, and the spreadsOnTable arrays of the rounds before

tableVars == << cards, discardPile, hand, spreadsOnTable >>

bettingVars == << chips, currentBet, pot, highestBet >>

turnVars == << currentPlayerIndex, phase, winner, winCondition, gameOvers, hasDrawnThisTurn, turnActions >>

matchVars == << numPlayers, matchScores, matchWinner, roundNumber >>

gameVars == << tableVars, bettingVars, turnVars, matchVars, pc, redealDepth, turnsPlayed >>

eventVars == << eventListeners, delivered >>

vars == << gameVars, lastOp, lastResult, args, eventVars, ui >>

\* no GameUI is listening
NoUi == [routines |-> << >>, oldSpreads |-> << >>]

\* GameUI.bindGameEvents has registered the listeners of the interface
Bound == Contains(eventListeners["turnStart"], "handleAITurn")

\* new Game()
Init ==
  /\ numPlayers = 0
  /\ cards = << >>
  /\ discardPile = << >>
  /\ hand = << >>
  /\ chips = << >>
  /\ currentBet = << >>
  /\ spreadsOnTable = << >>
  /\ currentPlayerIndex = 0
  /\ phase = PHASES_PRE_GAME
  /\ winner = NoPlayer
  /\ winCondition = NoCondition
  /\ gameOvers = << >>
  /\ hasDrawnThisTurn = FALSE
  /\ turnActions = << >>
  /\ matchScores = << >>
  /\ matchWinner = NoPlayer
  /\ roundNumber = 0
  /\ pot = 0
  /\ highestBet = 0
  /\ pc = "idle"
  /\ redealDepth = 0
  /\ turnsPlayed = 0
  /\ lastOp = "new"
  /\ lastResult = "ok"
  /\ eventListeners = [e \in Events |-> << >>]
  /\ delivered = << >>
  /\ ui = NoUi
  /\ args = << >>

\* an operation returning: with no interface bound to the game nothing else
\* changes; with GameUI bound its listeners run before the operation returns
Returned(op, result) ==
  /\ lastOp' = op
  /\ lastResult' = result
  /\ UNCHANGED << args, eventVars >>
  /\ IF Bound THEN TRUE ELSE UNCHANGED ui

\* an operation that throws before it changed anything
Throws ==
  /\ lastResult' = "throw"
  /\ UNCHANGED << gameVars, lastOp, args, eventVars >>
  /\ IF Bound THEN TRUE ELSE UNCHANGED ui

RECURSIVE SumOver(_, _)
SumOver(f, set) ==
  IF set = {} THEN 0
  ELSE LET x == CHOOSE y \in set : TRUE IN f[x] + SumOver(f, set \ {x})

Points(p) == CalculatePoints(hand[p])

\* endGameStockEmpty's scan: lowestPlayer starts as players[0] and moves to a
\* seat only when its points are strictly lower
RECURSIVE LowestPlayerFrom(_, _, _, _)
LowestPlayerFrom(h, p, n, lowest) ==
  IF p >= n THEN lowest
  ELSE LowestPlayerFrom(h, p + 1, n,
         IF CalculatePoints(h[p]) < CalculatePoints(h[lowest]) THEN p ELSE lowest)

\* the scan moving on points lower or equal: the last seat with the lowest points
LowestPlayerLast(h, n) ==
  CHOOSE p \in Seats(n) :
    \A q \in Seats(n) :
      \/ CalculatePoints(h[p]) < CalculatePoints(h[q])
      \/ CalculatePoints(h[p]) = CalculatePoints(h[q]) /\ q <= p

LowestPlayer(h, n) == LowestPlayerFrom(h, 0, n, 0)

\* knock's scan over the players other than the knocker: lowestOtherPlayer
\* starts as null with points Infinity
RECURSIVE LowestOtherFrom(_, _, _, _, _)
LowestOtherFrom(h, p, n, knocker, lowest) ==
  IF p >= n THEN lowest
  ELSE LowestOtherFrom(h, p + 1, n, knocker,
         IF p # knocker /\ (lowest = NoPlayer \/ CalculatePoints(h[p]) < CalculatePoints(h[lowest]))
         THEN p ELSE lowest)

\* the scan moving on points lower or equal: the last other seat with the lowest points
LowestOtherPlayerLast(h, n, knocker) ==
  CHOOSE p \in Seats(n) \ {knocker} :
    \A q \in Seats(n) \ {knocker} :
      \/ CalculatePoints(h[p]) < CalculatePoints(h[q])
      \/ CalculatePoints(h[p]) = CalculatePoints(h[q]) /\ q <= p

LowestOtherPlayer(h, n, knocker) == LowestOtherFrom(h, 0, n, knocker, NoPlayer)

\* the knocker winning a tie
KnockerWinsTie(knockerPoints, lowestOtherPoints) == knockerPoints <= lowestOtherPoints

\* knockerPoints < lowestOtherPoints
KnockerWins(knockerPoints, lowestOtherPoints) == knockerPoints < lowestOtherPoints

\* a deal is voided only from three initial tonks on
DealIsVoidFromThree(playersWithTonk) == Cardinality(playersWithTonk) > 2

\* playersWithTonk.length > 1
DealIsVoid(playersWithTonk) == Cardinality(playersWithTonk) > 1

\* the payload built before winner and winCondition are assigned
EmitGameOverEarly(since) ==
  gameOvers' = Append(since, [winner |-> winner, condition |-> winCondition])

\* this.emit('gameOver', { winner: this.winner, condition: this.winCondition })
\* after the events `since` of the round
EmitGameOver(since) ==
  gameOvers' = Append(since, [winner |-> winner', condition |-> winCondition'])

\* collectAntes, deal and the initial tonk check of one call of
\* dealAndCheckInitialTonk, entered with the deck `deck`, empty hands and the
\* chips `ch` of n players at recursion depth `depth`; w and wc are winner and
\* winCondition at entry
DealAndCheckInitialTonk(deck, ch, n, depth, w, wc) ==
  LET ante == [p \in Seats(n) |-> BetAmount(ANTE_AMOUNT, ch[p])]
      playersWithTonk == Dealing[n][deck].playersWithTonk
      \* no gameOver of the round yet when initialize or startNextRound enter
      since == IF depth = 0 /\ pc = "idle" THEN << >> ELSE gameOvers
  IN /\ chips' = [p \in Seats(n) |-> ch[p] - ante[p]]
     /\ currentBet' = ante
     /\ pot' = SumOver(ante, Seats(n))
     /\ highestBet' = ANTE_AMOUNT
     /\ IF DealIsVoid(playersWithTonk)
        THEN \* a draw: reset the players, build a new deck and recurse; the
             \* depth is counted up to MaxRedeals
             /\ hand' = [p \in Seats(n) |-> << >>]
             /\ \E fresh \in ShuffledDecks[n] : cards' = fresh
             /\ discardPile' = << >>
             /\ phase' = PHASES_INITIAL_TONK_CHECK
             /\ pc' = "redeal"
             /\ redealDepth' = IF depth < MaxRedeals THEN depth + 1 ELSE depth
             /\ winner' = w
             /\ winCondition' = wc
             /\ gameOvers' = since
        ELSE /\ hand' = Dealing[n][deck].hands
             /\ cards' = Dealing[n][deck].cards
             /\ discardPile' = << Dealing[n][deck].firstDiscard >>
             /\ pc' = "idle"
             /\ redealDepth' = 0
             /\ IF Cardinality(playersWithTonk) = 1
                THEN /\ winner' = CHOOSE p \in playersWithTonk : TRUE
                     /\ winCondition' = WIN_INITIAL_TONK
                     /\ phase' = PHASES_GAME_OVER
                     /\ EmitGameOver(since)
                ELSE /\ phase' = PHASES_START_OF_TURN
                     /\ winner' = w
                     /\ winCondition' = wc
                     /\ gameOvers' = since

\* initialize(playerCount) with the shuffle of new Deck() giving `deck`
Initialize(n, deck) ==
  /\ pc = "idle"
  /\ numPlayers' = n
  /\ currentPlayerIndex' = 0
  /\ spreadsOnTable' = << >>
  /\ hasDrawnThisTurn' = FALSE
  /\ turnActions' = << >>
  /\ roundNumber' = 1
  /\ matchWinner' = NoPlayer
  /\ matchScores' = [p \in Seats(n) |-> 0]
  /\ turnsPlayed' = 0
  /\ DealAndCheckInitialTonk(deck, [p \in Seats(n) |-> STARTING_CHIPS], n, 0,
                             NoPlayer, NoCondition)
  /\ Returned("initialize", IF pc' = "idle" THEN "ok" ELSE "running")

\* the recursive call of dealAndCheckInitialTonk after a voided deal
Redeal ==
  /\ pc = "redeal"
  /\ DealAndCheckInitialTonk(cards, chips, numPlayers, redealDepth, winner, winCondition)
  /\ UNCHANGED << spreadsOnTable, currentPlayerIndex, hasDrawnThisTurn, turnActions, matchVars,
                  turnsPlayed >>
  /\ Returned(lastOp, IF pc' = "idle" THEN "ok" ELSE "running")

\* startNextRound() with the shuffle of new Deck() giving `deck`
StartNextRound(deck) ==
  /\ pc = "idle"
  /\ roundNumber' = roundNumber + 1
  /\ spreadsOnTable' = << >>
  /\ hasDrawnThisTurn' = FALSE
  /\ turnActions' = << >>
  /\ DealAndCheckInitialTonk(deck, chips, numPlayers, 0, NoPlayer, NoCondition)
  /\ UNCHANGED << currentPlayerIndex, numPlayers, matchScores, matchWinner, turnsPlayed >>
  /\ Returned("startNextRound", IF pc' = "idle" THEN "ok" ELSE "running")

\* proceeding to the draw also after the draw
ProceedPhaseOkAfterDraw == phase \in {PHASES_START_OF_TURN, PHASES_ACTION}

\* ------------------------------------------------------------ phase guards
ProceedPhaseOk == phase = PHASES_START_OF_TURN

\* a draw accepted after the draw as well
DrawPhaseOkAgain == phase = PHASES_DRAW \/ phase = PHASES_ACTION

DrawPhaseOk == phase = PHASES_DRAW

LayPhaseOk == phase = PHASES_ACTION \/ phase = PHASES_START_OF_TURN

HitPhaseOk == phase = PHASES_ACTION \/ phase = PHASES_START_OF_TURN

\* discard accepted before the draw as well
DiscardPhaseOkBeforeDraw == phase = PHASES_ACTION \/ phase = PHASES_START_OF_TURN

DiscardPhaseOk == phase = PHASES_ACTION

\* knock accepted after the round ended as well
KnockPhaseOkAfterEnd == phase = PHASES_START_OF_TURN \/ phase = PHASES_GAME_OVER

KnockPhaseOk == phase = PHASES_START_OF_TURN

\* ------------------------------------------------------------- operations
\* proceedToDraw()
ProceedToDraw ==
  /\ pc = "idle"
  /\ IF ~ProceedPhaseOk THEN Throws
     ELSE /\ phase' = PHASES_DRAW
          /\ UNCHANGED << tableVars, bettingVars, matchVars, currentPlayerIndex, winner,
                          winCondition, gameOvers, hasDrawnThisTurn, turnActions, pc, redealDepth,
                          turnsPlayed >>
          /\ Returned("proceedToDraw", "ok")

\* the round ended on the empty stock without a win condition
EndGameStockEmptyNoCondition ==
  /\ winner' = LowestPlayer(hand, numPlayers)
  /\ winCondition' = NoCondition
  /\ phase' = PHASES_GAME_OVER
  /\ EmitGameOver(gameOvers)

\* endGameStockEmpty(): the first seat with the lowest points wins
EndGameStockEmpty ==
  /\ winner' = LowestPlayer(hand, numPlayers)
  /\ winCondition' = WIN_STOCK_EMPTY
  /\ phase' = PHASES_GAME_OVER
  /\ EmitGameOver(gameOvers)

\* drawFromDeck()
DrawFromDeck ==
  /\ pc = "idle"
  /\ IF ~DrawPhaseOk THEN Throws
     ELSE IF cards # << >>
     THEN /\ hand' = [hand EXCEPT ![currentPlayerIndex] = @ \o << cards[Len(cards)] >>]
          /\ cards' = SubSeq(cards, 1, Len(cards) - 1)
          /\ hasDrawnThisTurn' = TRUE
          /\ turnActions' = Append(turnActions, "draw")
          /\ phase' = PHASES_ACTION
          /\ UNCHANGED << discardPile, spreadsOnTable, bettingVars, matchVars,
                          currentPlayerIndex, winner, winCondition, gameOvers, pc, redealDepth,
                          turnsPlayed >>
          /\ Returned("drawFromDeck", "ok")
     ELSE /\ EndGameStockEmpty
          /\ UNCHANGED << tableVars, bettingVars, matchVars, currentPlayerIndex,
                          hasDrawnThisTurn, turnActions, pc, redealDepth, turnsPlayed >>
          /\ Returned("drawFromDeck", "null")

\* the card is taken from under the discard pile
DrawFromDiscardBottom ==
  /\ pc = "idle"
  /\ IF ~DrawPhaseOk THEN Throws
     ELSE IF discardPile # << >>
     THEN /\ hand' = [hand EXCEPT ![currentPlayerIndex] = @ \o << discardPile[1] >>]
          /\ discardPile' = SubSeq(discardPile, 2, Len(discardPile))
          /\ hasDrawnThisTurn' = TRUE
          /\ turnActions' = Append(turnActions, "draw")
          /\ phase' = PHASES_ACTION
          /\ UNCHANGED << cards, spreadsOnTable, bettingVars, matchVars, currentPlayerIndex,
                          winner, winCondition, gameOvers, pc, redealDepth, turnsPlayed >>
          /\ Returned("drawFromDiscard", "ok")
     ELSE /\ UNCHANGED gameVars
          /\ Returned("drawFromDiscard", "null")

\* drawFromDiscard(): an empty pile pops undefined and nothing changes
DrawFromDiscard ==
  /\ pc = "idle"
  /\ IF ~DrawPhaseOk THEN Throws
     ELSE IF discardPile # << >>
     THEN /\ hand' = [hand EXCEPT ![currentPlayerIndex] = @ \o << discardPile[Len(discardPile)] >>]
          /\ discardPile' = SubSeq(discardPile, 1, Len(discardPile) - 1)
          /\ hasDrawnThisTurn' = TRUE
          /\ turnActions' = Append(turnActions, "draw")
          /\ phase' = PHASES_ACTION
          /\ UNCHANGED << cards, spreadsOnTable, bettingVars, matchVars, currentPlayerIndex,
                          winner, winCondition, gameOvers, pc, redealDepth, turnsPlayed >>
          /\ Returned("drawFromDiscard", "ok")
     ELSE /\ UNCHANGED gameVars
          /\ Returned("drawFromDiscard", "null")

\* the check for Tonk left out
TonkIfEmptyMissing(h) == UNCHANGED << winner, winCondition, gameOvers, phase >>

\* the check for Tonk after a lay, a hit or a discard left the hand h
TonkIfEmpty(h) ==
  IF h = << >>
  THEN /\ winner' = currentPlayerIndex
       /\ winCondition' = WIN_TONK
       /\ phase' = PHASES_GAME_OVER
       /\ EmitGameOver(gameOvers)
  ELSE UNCHANGED << winner, winCondition, gameOvers, phase >>

\* laySpread(cards)
LaySpread(cs) ==
  /\ pc = "idle"
  /\ IF ~LayPhaseOk THEN Throws
     ELSE IF ValidateType(cs) = "invalid" THEN Throws
     ELSE LET left == RemoveCards(hand[currentPlayerIndex], cs)
          IN /\ hand' = [hand EXCEPT ![currentPlayerIndex] = left]
             /\ spreadsOnTable' =
                  Append(spreadsOnTable, NewSpread(cs, ValidateType(cs), currentPlayerIndex))
             /\ turnActions' = Append(turnActions, "spread")
             /\ TonkIfEmpty(left)
             /\ UNCHANGED << cards, discardPile, bettingVars, matchVars, currentPlayerIndex,
                             hasDrawnThisTurn, pc, redealDepth, turnsPlayed >>
             /\ Returned("laySpread", "ok")

\* hitSpread(card, spread) with the i-th spread of the table
HitSpread(c, i) ==
  /\ pc = "idle"
  /\ IF ~HitPhaseOk THEN Throws
     ELSE IF ~CanAddCard(spreadsOnTable[i], c) THEN Throws
     ELSE LET left == RemoveCard(hand[currentPlayerIndex], c)
          IN /\ hand' = [hand EXCEPT ![currentPlayerIndex] = left]
             /\ spreadsOnTable' = [spreadsOnTable EXCEPT ![i] = AddCard(@, c)]
             /\ turnActions' = Append(turnActions, "hit")
             /\ TonkIfEmpty(left)
             /\ UNCHANGED << cards, discardPile, bettingVars, matchVars, currentPlayerIndex,
                             hasDrawnThisTurn, pc, redealDepth, turnsPlayed >>
             /\ Returned("hitSpread", "ok")

\* the turn passing over a seat
EndTurnSkipsSeat ==
  /\ currentPlayerIndex' = (currentPlayerIndex + 2) % numPlayers
  /\ hasDrawnThisTurn' = FALSE
  /\ turnActions' = << >>
  /\ phase' = PHASES_START_OF_TURN
  /\ turnsPlayed' = turnsPlayed + 1

\* endTurn()
EndTurn ==
  /\ currentPlayerIndex' = (currentPlayerIndex + 1) % numPlayers
  /\ hasDrawnThisTurn' = FALSE
  /\ turnActions' = << >>
  /\ phase' = PHASES_START_OF_TURN
  /\ turnsPlayed' = turnsPlayed + 1

\* discard(card)
Discard(c) ==
  /\ pc = "idle"
  /\ IF ~DiscardPhaseOk THEN Throws
     ELSE IF ~Contains(hand[currentPlayerIndex], c) THEN Throws
     ELSE LET left == RemoveCard(hand[currentPlayerIndex], c)
          IN /\ hand' = [hand EXCEPT ![currentPlayerIndex] = left]
             /\ discardPile' = Append(discardPile, c)
             /\ IF left = << >>
                THEN /\ turnActions' = Append(turnActions, "discard")
                     /\ TonkIfEmpty(left)
                     /\ UNCHANGED << currentPlayerIndex, hasDrawnThisTurn, turnsPlayed >>
                ELSE /\ EndTurn
                     /\ UNCHANGED << winner, winCondition, gameOvers >>
             /\ UNCHANGED << cards, spreadsOnTable, bettingVars, matchVars, pc, redealDepth >>
             /\ Returned("discard", "ok")

\* a knock that takes the hands of the other players off the table
KnockFoldsOthers ==
  /\ pc = "idle"
  /\ IF ~KnockPhaseOk THEN Throws
     ELSE LET knocker == currentPlayerIndex
              lowestOtherPlayer == LowestOtherPlayer(hand, numPlayers, knocker)
          IN /\ IF \/ lowestOtherPlayer = NoPlayer
                   \/ KnockerWins(Points(knocker), Points(lowestOtherPlayer))
                THEN winner' = knocker /\ winCondition' = WIN_KNOCK
                ELSE winner' = lowestOtherPlayer /\ winCondition' = WIN_CAUGHT
             /\ phase' = PHASES_GAME_OVER
             /\ EmitGameOver(gameOvers)
             /\ hand' = [p \in DOMAIN hand |-> IF p = knocker THEN hand[p] ELSE << >>]
             /\ UNCHANGED << cards, discardPile, spreadsOnTable, bettingVars, matchVars,
                             currentPlayerIndex, hasDrawnThisTurn, turnActions, pc,
                             redealDepth, turnsPlayed >>
             /\ Returned("knock", "ok")

\* knock(): the knocker wins only with strictly the lowest points; otherwise the
\* lowest of the other players wins
Knock ==
  /\ pc = "idle"
  /\ IF ~KnockPhaseOk THEN Throws
     ELSE LET knocker == currentPlayerIndex
              lowestOtherPlayer == LowestOtherPlayer(hand, numPlayers, knocker)
          IN /\ IF \/ lowestOtherPlayer = NoPlayer
                   \/ KnockerWins(Points(knocker), Points(lowestOtherPlayer))
                THEN winner' = knocker /\ winCondition' = WIN_KNOCK
                ELSE winner' = lowestOtherPlayer /\ winCondition' = WIN_CAUGHT
             /\ phase' = PHASES_GAME_OVER
             /\ EmitGameOver(gameOvers)
             /\ UNCHANGED << tableVars, bettingVars, matchVars, currentPlayerIndex,
                             hasDrawnThisTurn, turnActions, pc, redealDepth, turnsPlayed >>
             /\ Returned("knock", "ok")

\* the points applyRoundScoring adds for every player, the winner included
RoundPointsAll(p, w) == Points(p)

\* the points applyRoundScoring adds to the match score of seat p when w is
\* the winner of the round (NoPlayer: no winner yet)
RoundPoints(p, w) == IF p # w THEN Points(p) ELSE 0

\* on(event, callback)
On(e, cb) ==
  /\ pc = "idle"
  /\ eventListeners' = [eventListeners EXCEPT ![e] = Append(@, cb)]
  /\ lastOp' = "on"
  /\ lastResult' = "ok"
  /\ UNCHANGED << gameVars, args, delivered, ui >>

\* off(event, callback)
Off(e, cb) ==
  /\ pc = "idle"
  /\ eventListeners' = [eventListeners EXCEPT ![e] = WithoutCallback(@, cb)]
  /\ lastOp' = "off"
  /\ lastResult' = "ok"
  /\ UNCHANGED << gameVars, args, delivered, ui >>

\* emit(event, data): the loop runs over the array that was registered when
\* it started; a callback that calls off stores a new, filtered array and
\* leaves the one being iterated alone
Emit(e) ==
  /\ pc = "idle"
  /\ delivered' = eventListeners[e]
  /\ eventListeners' =
       [eventListeners EXCEPT ![e] = IF Contains(@, "once") THEN WithoutCallback(@, "once") ELSE @]
  /\ lastOp' = "emit"
  /\ lastResult' = "ok"
  /\ UNCHANGED << gameVars, args, ui >>

\* collectAntes() called by itself
CollectAntes ==
  /\ pc = "idle"
  /\ LET ante == [p \in Seats(numPlayers) |-> BetAmount(ANTE_AMOUNT, chips[p])]
     IN /\ chips' = [p \in Seats(numPlayers) |-> chips[p] - ante[p]]
        /\ currentBet' = ante
        /\ pot' = SumOver(ante, Seats(numPlayers))
        /\ highestBet' = ANTE_AMOUNT
  /\ UNCHANGED << tableVars, turnVars, matchVars, pc, redealDepth, turnsPlayed >>
  /\ Returned("collectAntes", "ok")

\* placeBet(player, amount) for the player of seat p; isEliminated is never set
PlaceBet(p, amount) ==
  /\ pc = "idle"
  /\ LET actualBet == BetAmount(amount, chips[p])
     IN /\ chips' = [chips EXCEPT ![p] = @ - actualBet]
        /\ currentBet' = [currentBet EXCEPT ![p] = @ + actualBet]
        /\ pot' = pot + actualBet
        /\ highestBet' = IF currentBet[p] + actualBet > highestBet
                         THEN currentBet[p] + actualBet ELSE highestBet
  /\ UNCHANGED << tableVars, turnVars, matchVars, pc, redealDepth, turnsPlayed >>
  /\ Returned("placeBet", "ok")

\* the pot awarded and the winner of the round forgotten
AwardPotClearingWinner(w) ==
  /\ pc = "idle"
  /\ chips' = [chips EXCEPT ![w] = @ + pot]
  /\ pot' = 0
  /\ winner' = NoPlayer
  /\ UNCHANGED << tableVars, currentBet, highestBet, currentPlayerIndex, phase, winCondition, gameOvers,
                  hasDrawnThisTurn, turnActions, matchVars, pc, redealDepth, turnsPlayed >>
  /\ Returned("awardPot", "ok")

\* awardPot(winner) for the player of seat w
AwardPot(w) ==
  /\ pc = "idle"
  /\ chips' = [chips EXCEPT ![w] = @ + pot]
  /\ pot' = 0
  /\ UNCHANGED << tableVars, currentBet, highestBet, turnVars, matchVars, pc, redealDepth,
                  turnsPlayed >>
  /\ Returned("awardPot", "ok")

\* applyRoundScoring()
ApplyRoundScoring ==
  /\ pc = "idle"
  /\ matchScores' = [p \in Seats(numPlayers) |-> matchScores[p] + RoundPoints(p, winner)]
  /\ UNCHANGED << tableVars, bettingVars, turnVars, numPlayers, matchWinner, roundNumber,
                  pc, redealDepth, turnsPlayed >>
  /\ Returned("applyRoundScoring", "ok")

\* the scan moving on scores lower or equal: the last seat with the lowest score
LowestScoreLast(scores, n) ==
  CHOOSE p \in Seats(n) :
    \A q \in Seats(n) : scores[p] < scores[q] \/ (scores[p] = scores[q] /\ q <= p)

\* checkMatchEnd's scan: matchWinner starts as players[0] and moves to a seat
\* only when its score is strictly lower
RECURSIVE LowestScoreFrom(_, _, _, _)
LowestScoreFrom(scores, p, n, lowest) ==
  IF p >= n THEN lowest
  ELSE LowestScoreFrom(scores, p + 1, n, IF scores[p] < scores[lowest] THEN p ELSE lowest)

LowestScorePlayer(scores, n) == LowestScoreFrom(scores, 0, n, 0)

\* checkMatchEnd(): lastResult records the value returned
CheckMatchEnd ==
  /\ pc = "idle"
  /\ IF \E p \in Seats(numPlayers) : matchScores[p] >= MATCH_POINT_LIMIT
     THEN /\ matchWinner' = LowestScorePlayer(matchScores, numPlayers)
          /\ Returned("checkMatchEnd", "true")
     ELSE /\ matchWinner' = matchWinner
          /\ Returned("checkMatchEnd", "false")
  /\ UNCHANGED << tableVars, bettingVars, turnVars, numPlayers, matchScores, roundNumber,
                  pc, redealDepth, turnsPlayed >>

\* ------------------------------------------------- the caller's arguments
Min(set) == CHOOSE x \in set : \A y \in set : x <= y

Max(set) == CHOOSE x \in set : \A y \in set : y <= x

\* the cards of a set as a list in deck order
RECURSIVE AscSeq(_)
AscSeq(set) == IF set = {} THEN << >> ELSE << Min(set) >> \o AscSeq(set \ {Min(set)})

FirstCards(h, k) == SubSeq(h, 1, IF Len(h) < k THEN Len(h) ELSE k)

CurrentHand == hand[currentPlayerIndex]

LaysAndHits == Cardinality({ i \in 1 .. Len(turnActions) : turnActions[i] \in {"spread", "hit"} })

\* every card is in exactly one place: draw pile, discard pile, a hand or a spread
RECURSIVE Flatten(_)
Flatten(seqs) == IF seqs = << >> THEN << >> ELSE Head(seqs) \o Flatten(Tail(seqs))

AllCardsInPlay ==
  cards \o discardPile
    \o Flatten([p \in 1 .. numPlayers |-> hand[p - 1]])
    \o Flatten([i \in 1 .. Len(spreadsOnTable) |-> spreadsOnTable[i].cards])

EachCardOnce ==
  /\ Len(AllCardsInPlay) = NUM_SUITS * NUM_RANKS
  /\ Range(AllCardsInPlay) = Cards

\* two cards that can be in one spread of three: the same rank, or the same
\* suit within two rank indices
Near(c, d) ==
  \/ RankIndex(c) = RankIndex(d)
  \/ Suit(c) = Suit(d) /\ RankIndex(c) - RankIndex(d) \in -2 .. 2

NearCards == [c \in Cards |-> { x \in Cards : Near(x, c) }]

\* the spreads held in a hand, as card sets; every card of a spread is near
\* another card of it
HeldSpreads(h) ==
  LET useful == { c \in Range(h) : \E d \in Range(h) \ {c} : Near(c, d) }
  IN { set \in SUBSET useful :
         Cardinality(set) >= MIN_SPREAD_SIZE /\ ValidateType(AscSeq(set)) # "invalid" }

\* the three-card spreads made of two cards of the hand and one card that is not in it
ForeignSpreads(h) ==
  LET pairs == { ij \in (1 .. Len(h)) \X (1 .. Len(h)) : ij[1] < ij[2] /\ Near(h[ij[1]], h[ij[2]]) }
  IN { set \in UNION { { {h[ij[1]], h[ij[2]], x} : x \in NearCards[h[ij[1]]] \ Range(h) } :
                         ij \in pairs } :
         Cardinality(set) = MIN_SPREAD_SIZE /\ ValidateType(AscSeq(set)) # "invalid" }

\* the set among `sets` whose highest card is lowest
LowestSet(sets) ==
  LET lowest == Min({ Max(set) : set \in sets })
  IN CHOOSE set \in sets : Max(set) = lowest

\* card lists passed to laySpread: every spread held in the hand, in deck
\* order; the first two cards of the hand (too short to be a spread); and,
\* while no card has been duplicated yet, one spread with a card that is not
\* in the hand
LayInputs(h) ==
  LET foreign == ForeignSpreads(h)
  IN { AscSeq(set) : set \in HeldSpreads(h) }
       \cup { FirstCards(h, 2) }
       \cup (IF foreign # {} /\ EachCardOnce THEN { AscSeq(LowestSet(foreign)) } ELSE {})

\* the cards a spread accepts
Accepted(sp) == { c \in Cards : CanAddCard(sp, c) }

\* (card, spread) pairs passed to hitSpread: a spread of the table with a card
\* of the hand or, while no card has been duplicated yet, with the lowest card
\* it accepts
HitInputs(h) ==
  LET once == EachCardOnce
  IN UNION { LET acc == IF once THEN Accepted(spreadsOnTable[i]) ELSE {}
             IN { << c, i >> : c \in Range(h) \cup (IF acc = {} THEN {} ELSE { Min(acc) }) } :
             i \in 1 .. Len(spreadsOnTable) }

\* cards passed to discard: the first and the last card of the hand and one
\* card that is not in the hand
DiscardInputs(h) ==
  { Min(Cards \ Range(h)) } \cup (IF h = << >> THEN {} ELSE { h[1], h[Len(h)] })

\* the voided deals explored: from depth MaxRedeals on, the shuffle of a
\* redeal gives a deal that is not voided
BoundedRedeal ==
  pc' = "redeal" => (redealDepth' < MaxRedeals \/ TonkCount(cards', numPlayers') <= 1)

\* a rejected call leaves the game as it was before the call: the calls that
\* can follow it are explored from the state before it
Settled == lastResult # "throw"

\* the turns explored: the caller plays MaxTurns turns after initialize; in the
\* turn after them only knock is called
InPlay == Settled /\ numPlayers > 0 /\ turnsPlayed < MaxTurns

\* a game is started on the new Game with any number of players and, from the
\* game-over screen once the rounds explored are over, with the same number
NewGame ==
  /\ Settled
  /\ \E n \in PlayerCounts :
       /\ \/ phase = PHASES_PRE_GAME
          \/ phase = PHASES_GAME_OVER /\ roundNumber >= MaxRounds /\ n = numPlayers
       /\ \E deck \in DecksAt[n, 0] : Initialize(n, deck)
  /\ BoundedRedeal

NextRound ==
  /\ Settled
  /\ numPlayers > 0
  /\ roundNumber < MaxRounds
  /\ \E deck \in DecksAt[numPlayers, 0] : StartNextRound(deck)
  /\ BoundedRedeal

Next ==
  \/ NewGame
  \/ Redeal /\ BoundedRedeal
  \/ NextRound
  \/ InPlay /\ ProceedToDraw
  \/ InPlay /\ DrawFromDeck
  \/ InPlay /\ DrawFromDiscard
  \/ InPlay /\ LaysAndHits < MaxTurnActions /\ \E cs \in LayInputs(CurrentHand) : LaySpread(cs)
  \/ InPlay /\ LaysAndHits < MaxTurnActions
       /\ \E ci \in HitInputs(CurrentHand) : HitSpread(ci[1], ci[2])
  \/ InPlay /\ \E c \in DiscardInputs(CurrentHand) : Discard(c)
  \/ Settled /\ Knock

Spec == Init /\ [][Next]_vars

\* card lists passed to laySpread by a caller that passes distinct cards of
\* the hand only: every spread held in the hand, in deck order and with its
\* first two cards exchanged, and the first two cards of the hand
HeldLayInputs(h) ==
  LET spreads == { AscSeq(set) : set \in HeldSpreads(h) }
  IN spreads \cup { << cs[2], cs[1] >> \o SubSeq(cs, 3, Len(cs)) : cs \in spreads }
       \cup { FirstCards(h, 2) }

\* (card, spread) pairs passed to hitSpread by a caller that passes cards of
\* the hand only, with any spread of the table
HeldHitInputs(h) == Range(h) \X (1 .. Len(spreadsOnTable))

\* the game played by a caller that lays and hits with cards of the hand of
\* the current player only
NextHeld ==
  \/ NewGame
  \/ Redeal /\ BoundedRedeal
  \/ NextRound
  \/ InPlay /\ ProceedToDraw
  \/ InPlay /\ DrawFromDeck
  \/ InPlay /\ DrawFromDiscard
  \/ InPlay /\ LaysAndHits < MaxTurnActions
       /\ \E cs \in HeldLayInputs(CurrentHand) : LaySpread(cs)
  \/ InPlay /\ LaysAndHits < MaxTurnActions
       /\ \E ci \in HeldHitInputs(CurrentHand) : HitSpread(ci[1], ci[2])
  \/ InPlay /\ \E c \in DiscardInputs(CurrentHand) : Discard(c)
  \/ Settled /\ Knock

SpecHeld == Init /\ [][NextHeld]_vars

\* the turns explored under SpecPile
PileInPlay == Settled /\ numPlayers > 0 /\ turnsPlayed < MaxPileTurns

\* turns passed from player to player: a draw from either pile, then a
\* discard
NextPile ==
  \/ NewGame
  \/ Redeal /\ BoundedRedeal
  \/ NextRound
  \/ PileInPlay /\ ProceedToDraw
  \/ PileInPlay /\ DrawFromDeck
  \/ PileInPlay /\ DrawFromDiscard
  \/ PileInPlay /\ \E c \in DiscardInputs(CurrentHand) : Discard(c)

SpecPile == Init /\ [][NextPile]_vars

\* rounds played to the end of the stock: every player draws from the stock
\* and discards the card drawn, or knocks
NextStock ==
  \/ NewGame
  \/ Redeal /\ BoundedRedeal
  \/ Settled /\ ProceedToDraw
  \/ Settled /\ DrawFromDeck
  \/ Settled /\ numPlayers > 0 /\ CurrentHand # << >> /\ Discard(CurrentHand[Len(CurrentHand)])
  \/ Settled /\ Knock

SpecStock == Init /\ [][NextStock]_vars

\* the cards of a set in every order
Orders(set) == { f \in [1 .. Cardinality(set) -> set] : Range(f) = set }

\* card lists passed to laySpread when the order of the cards matters: the
\* lists of LayInputs and every spread held in the hand in every order
TableLayInputs(h) == LayInputs(h) \cup UNION { Orders(set) : set \in HeldSpreads(h) }

\* play on the table: lays in any card order and hits, with the draws and the
\* discards that pass the turn
NextTable ==
  \/ NewGame
  \/ Redeal /\ BoundedRedeal
  \/ InPlay /\ ProceedToDraw
  \/ InPlay /\ DrawFromDeck
  \/ InPlay /\ LaysAndHits < MaxTurnActions
       /\ \E cs \in TableLayInputs(CurrentHand) : LaySpread(cs)
  \/ InPlay /\ LaysAndHits < MaxTurnActions
       /\ \E ci \in HitInputs(CurrentHand) : HitSpread(ci[1], ci[2])
  \/ InPlay /\ CurrentHand # << >> /\ Discard(CurrentHand[Len(CurrentHand)])

SpecTable == Init /\ [][NextTable]_vars

\* the hands handed to findPossibleSpreads and shouldKnock are drawn from the
\* four aces, three twos, and the three, the four and the king of spades
HandCards ==
  { CardOf(su, 0) : su \in {H, D, C, S} } \cup { CardOf(su, 1) : su \in {H, D, S} }
    \cup { CardOf(S, 2), CardOf(S, 3), CardOf(S, NUM_RANKS - 1) }

\* findPossibleSpreads(cards) called on the hand the caller passes
FindSpreads ==
  /\ lastOp = "new"
  /\ Returned("findPossibleSpreads", FindPossibleSpreads(args[1]))
  /\ UNCHANGED gameVars

\* shouldKnock() called on a computer player holding the hand the caller passes
AskShouldKnock ==
  /\ lastOp = "new"
  /\ Returned("shouldKnock", IF ShouldKnock(args[1]) THEN "true" ELSE "false")
  /\ UNCHANGED gameVars

\* a caller outside a game holding a hand of distinct cards
InitHand ==
  /\ numPlayers = 0
  /\ cards = << >>
  /\ discardPile = << >>
  /\ hand = << >>
  /\ chips = << >>
  /\ currentBet = << >>
  /\ spreadsOnTable = << >>
  /\ currentPlayerIndex = 0
  /\ phase = PHASES_PRE_GAME
  /\ winner = NoPlayer
  /\ winCondition = NoCondition
  /\ gameOvers = << >>
  /\ hasDrawnThisTurn = FALSE
  /\ turnActions = << >>
  /\ matchScores = << >>
  /\ matchWinner = NoPlayer
  /\ roundNumber = 0
  /\ pot = 0
  /\ highestBet = 0
  /\ pc = "idle"
  /\ redealDepth = 0
  /\ turnsPlayed = 0
  /\ lastOp = "new"
  /\ lastResult = "ok"
  /\ eventListeners = [e \in Events |-> << >>]
  /\ delivered = << >>
  /\ ui = NoUi
  /\ \E n \in 0 .. MaxHandLen : \E cs \in [1 .. n -> HandCards] :
       IsDistinct(cs) /\ args = << cs >>

NextHand == FindSpreads \/ AskShouldKnock

SpecHand == InitHand /\ [][NextHand]_vars

\* amounts passed to placeBet: the first raise option, an amount that leaves
\* half an ante of the starting chips after the first ante, and more than any
\* player holds
RaiseInputs ==
  { RAISE_OPTIONS[1], STARTING_CHIPS - ANTE_AMOUNT - ANTE_AMOUNT \div 2, STARTING_CHIPS }

\* betting: rounds of operations called in their phase that end by a knock or
\* at the deal, with the first two seats raising, each once per round and in any phase; the pot is awarded
\* when the round is over (GameUI.showGameOver) and the next round started.
\* collectAntes is also called by itself, right after a deal
NextBetting ==
  \/ phase = PHASES_PRE_GAME /\ NewGame
  \/ Redeal /\ BoundedRedeal
  \/ /\ Settled /\ numPlayers > 0 /\ roundNumber < MaxRounds
     /\ lastOp = "awardPot"
     /\ \E deck \in DecksAt[numPlayers, 0] : StartNextRound(deck)
     /\ BoundedRedeal
  \/ Settled /\ numPlayers > 0 /\ ProceedPhaseOk /\ ProceedToDraw
  \/ Settled /\ numPlayers > 0 /\ DrawPhaseOk /\ DrawFromDeck
  \/ Settled /\ numPlayers > 0 /\ KnockPhaseOk /\ Knock
  \/ /\ Settled /\ numPlayers > 0
     /\ \E p \in Seats(MIN_PLAYERS), amount \in RaiseInputs :
          currentBet[p] <= ANTE_AMOUNT /\ PlaceBet(p, amount)
  \/ /\ Settled /\ phase = PHASES_GAME_OVER
     /\ lastOp # "awardPot"
     /\ AwardPot(winner)
  \/ /\ Settled /\ numPlayers > 0
     /\ lastOp \in {"initialize", "startNextRound"}
     /\ CollectAntes

SpecBetting == Init /\ [][NextBetting]_vars

\* rounds played by a host that awards the pot to the winner once when a
\* round ends and then starts the next round; raises are placed while a round
\* is played
NextPot ==
  \/ phase = PHASES_PRE_GAME /\ NewGame
  \/ Redeal /\ BoundedRedeal
  \/ /\ Settled /\ numPlayers > 0 /\ roundNumber < MaxRounds
     /\ phase = PHASES_GAME_OVER
     /\ lastOp = "awardPot"
     /\ \E deck \in DecksAt[numPlayers, 0] : StartNextRound(deck)
     /\ BoundedRedeal
  \/ Settled /\ numPlayers > 0 /\ ProceedPhaseOk /\ ProceedToDraw
  \/ Settled /\ numPlayers > 0 /\ DrawPhaseOk /\ DrawFromDeck
  \/ Settled /\ numPlayers > 0 /\ KnockPhaseOk /\ Knock
  \/ /\ Settled /\ numPlayers > 0
     /\ phase = PHASES_ACTION
     /\ \E p \in Seats(MIN_PLAYERS), amount \in RaiseInputs :
          currentBet[p] <= ANTE_AMOUNT /\ PlaceBet(p, amount)
  \/ /\ Settled /\ phase = PHASES_GAME_OVER
     /\ lastOp # "awardPot"
     /\ AwardPot(winner)

SpecPot == Init /\ [][NextPot]_vars

\* subscribers registering and unregistering while events are emitted
NextEvents ==
  \/ \E e \in Events, cb \in Callbacks :
       /\ Len(eventListeners["turnStart"]) + Len(eventListeners["gameOver"]) < MaxListeners
       /\ On(e, cb)
  \/ \E e \in Events, cb \in Callbacks : Off(e, cb)
  \/ \E e \in Events : Emit(e)

SpecEvents == Init /\ [][NextEvents]_vars

\* a match: the round is scored and the match end checked once the round is
\* over (GameUI.showGameOver), then the next round is started.  The first
\* round ends by a lay or a knock in its first turn, at the deal, or, with two
\* players, when the stock runs out after every player passed on the card
\* drawn; the later rounds end by a knock or at the deal
NextMatch ==
  \/ NewGame
  \/ Redeal /\ BoundedRedeal
  \/ /\ Settled
     /\ phase = PHASES_GAME_OVER
     /\ lastOp = "checkMatchEnd"
     /\ roundNumber < MaxMatchRounds
     /\ \E deck \in DecksAt[numPlayers, 0] : StartNextRound(deck)
     /\ BoundedRedeal
  \/ Settled /\ (roundNumber > 1 \/ turnsPlayed = 0) /\ Knock
  \/ /\ Settled
     /\ numPlayers > 0 /\ roundNumber = 1 /\ turnsPlayed = 0
     /\ phase = PHASES_START_OF_TURN
     /\ \E set \in HeldSpreads(CurrentHand) : LaySpread(AscSeq(set))
  \/ Settled /\ numPlayers = MIN_PLAYERS /\ roundNumber = 1 /\ ProceedToDraw
  \/ Settled /\ numPlayers = MIN_PLAYERS /\ roundNumber = 1 /\ DrawFromDeck
  \/ /\ Settled
     /\ numPlayers = MIN_PLAYERS /\ roundNumber = 1
     /\ CurrentHand # << >>
     /\ Discard(CurrentHand[Len(CurrentHand)])
  \/ /\ Settled
     /\ phase = PHASES_GAME_OVER
     /\ lastOp \notin {"applyRoundScoring", "checkMatchEnd"}
     /\ ApplyRoundScoring
  \/ Settled /\ lastOp = "applyRoundScoring" /\ CheckMatchEnd

SpecMatch == Init /\ [][NextMatch]_vars

\* the card lists handed to the Spread functions are drawn from the aces,
\* twos, threes and kings of the four suits and the four of spades
ProbeRanks == {0, 1, 2, NUM_RANKS - 1}

ProbeCards == {c \in Cards : RankIndex(c) \in ProbeRanks} \cup {CardOf(S, 3)}

\* Spread.validate(cards) called on the list the caller passes
Validate ==
  /\ lastOp = "new"
  /\ Len(args) = 1
  /\ Returned("validate", ValidateType(args[1]))
  /\ UNCHANGED gameVars

\* spread.canAddCard(card) called on the spread and the card the caller passes
CanAdd ==
  /\ lastOp = "new"
  /\ Len(args) = 2
  /\ Returned("canAddCard", IF CanAddCard(args[1], args[2]) THEN "true" ELSE "false")
  /\ UNCHANGED gameVars

\* a caller outside a game holding the arguments of one Spread call: a list
\* of distinct cards for validate; for canAddCard a spread made from a valid
\* list with the type validate gave it, as laySpread makes it, for any owner,
\* and any card
InitSpread ==
  /\ numPlayers = 0
  /\ cards = << >>
  /\ discardPile = << >>
  /\ hand = << >>
  /\ chips = << >>
  /\ currentBet = << >>
  /\ spreadsOnTable = << >>
  /\ currentPlayerIndex = 0
  /\ phase = PHASES_PRE_GAME
  /\ winner = NoPlayer
  /\ winCondition = NoCondition
  /\ gameOvers = << >>
  /\ hasDrawnThisTurn = FALSE
  /\ turnActions = << >>
  /\ matchScores = << >>
  /\ matchWinner = NoPlayer
  /\ roundNumber = 0
  /\ pot = 0
  /\ highestBet = 0
  /\ pc = "idle"
  /\ redealDepth = 0
  /\ turnsPlayed = 0
  /\ lastOp = "new"
  /\ lastResult = "ok"
  /\ eventListeners = [e \in Events |-> << >>]
  /\ delivered = << >>
  /\ ui = NoUi
  /\ \E n \in 0 .. MaxListLen : \E cs \in [1 .. n -> ProbeCards] :
       /\ IsDistinct(cs)
       /\ \/ args = << cs >>
          \/ /\ ValidateType(cs) # "invalid"
             /\ \E owner \in Seats(MIN_PLAYERS), c \in ProbeCards :
                  args = << NewSpread(cs, ValidateType(cs), owner), c >>

NextSpread == Validate \/ CanAdd

SpecSpread == InitSpread /\ [][NextSpread]_vars

\* deals and redeals without a bound on the voided deals in a row: any shuffle
\* at any depth
NextRedeal ==
  \/ phase = PHASES_PRE_GAME
       /\ \E n \in PlayerCounts : \E deck \in ShuffledDecks[n] : Initialize(n, deck)
  \/ Redeal
  \/ numPlayers > 0 /\ roundNumber < MaxRounds
       /\ \E deck \in ShuffledDecks[numPlayers] : StartNextRound(deck)

\* the recursive call is made, and a fair shuffle does not give voided deals
\* for ever: a redeal whose new shuffle, if it makes one, is not voided
FairShuffle == Redeal /\ (pc' = "redeal" => TonkCount(cards', numPlayers) <= 1)

SpecRedeal == Init /\ [][NextRedeal]_vars /\ WF_vars(FairShuffle)

\* the hands handed to decideDiscard and findAllSpreadsToLay are drawn from
\* the nine, ten and jack of spades and of hearts and the jack of diamonds
AiCards ==
  { CardOf(S, 8), CardOf(S, 9), CardOf(S, 10), CardOf(H, 8), CardOf(H, 9), CardOf(H, 10),
    CardOf(D, 10) }

\* the hands handed to decideDraw are drawn from the two, three, five, jack
\* and king of spades, one more king and two more twos
DrawCards ==
  { CardOf(S, 1), CardOf(S, 2), CardOf(S, 4), CardOf(S, 10), CardOf(S, 12),
    CardOf(H, 12), CardOf(H, 1), CardOf(D, 1) }

\* the cards seen on top of the discard pile: the four and the queen of
\* spades, the two and the king of clubs
DiscardTops == { CardOf(S, 3), CardOf(S, 11), CardOf(C, 1), CardOf(C, 12) }

\* decideDiscard() called on a computer player holding the hand the caller
\* passes; sorted[0] of an empty hand is undefined
AskDecideDiscard ==
  /\ lastOp = "new"
  /\ Returned("decideDiscard",
              IF args[1] = << >> THEN "undefined" ELSE DecideDiscard(args[1]))
  /\ UNCHANGED gameVars

\* findAllSpreadsToLay() called on a computer player holding the hand the
\* caller passes
AskFindAllSpreadsToLay ==
  /\ lastOp = "new"
  /\ Returned("findAllSpreadsToLay", FindAllSpreadsToLay(args[1]))
  /\ UNCHANGED gameVars

\* decideDraw(discardTop) called with the top of a discard pile that is
\* empty (null) or holds a card that is not in the hand
AskDecideDraw ==
  /\ lastOp = "new"
  /\ \E pile \in { << >> } \cup { << c >> : c \in DiscardTops \ Range(args[1]) } :
       /\ lastOp' = "decideDraw"
       /\ lastResult' = IF pile = << >> THEN "deck" ELSE DecideDraw(args[1], pile[1])
       /\ args' = << args[1], pile >>
  /\ UNCHANGED << gameVars, eventVars, ui >>

\* a computer player that is in no game
OutsideGame ==
  /\ numPlayers = 0
  /\ cards = << >>
  /\ discardPile = << >>
  /\ hand = << >>
  /\ chips = << >>
  /\ currentBet = << >>
  /\ spreadsOnTable = << >>
  /\ currentPlayerIndex = 0
  /\ phase = PHASES_PRE_GAME
  /\ winner = NoPlayer
  /\ winCondition = NoCondition
  /\ gameOvers = << >>
  /\ hasDrawnThisTurn = FALSE
  /\ turnActions = << >>
  /\ matchScores = << >>
  /\ matchWinner = NoPlayer
  /\ roundNumber = 0
  /\ pot = 0
  /\ highestBet = 0
  /\ pc = "idle"
  /\ redealDepth = 0
  /\ turnsPlayed = 0
  /\ lastOp = "new"
  /\ lastResult = "ok"
  /\ eventListeners = [e \in Events |-> << >>]
  /\ delivered = << >>
  /\ ui = NoUi

\* the computer player holds a hand of distinct cards, of up to one card more
\* than is dealt: the hand after the draw
InitAi ==
  /\ OutsideGame
  /\ \E n \in 0 .. (MaxHandLen + 1) : \E cs \in [1 .. n -> AiCards] :
       IsDistinct(cs) /\ args = << cs >>

NextAi == AskDecideDiscard \/ AskFindAllSpreadsToLay

SpecAi == InitAi /\ [][NextAi]_vars

\* the computer player holds a hand of distinct cards before the draw
InitDraw ==
  /\ OutsideGame
  /\ \E n \in 0 .. MaxHandLen : \E cs \in [1 .. n -> DrawCards] :
       IsDistinct(cs) /\ args = << cs >>

NextDraw == AskDecideDraw

SpecDraw == InitDraw /\ [][NextDraw]_vars

\* ------------------------------------------------------------------ GameUI
\* isGameOver()
IsGameOver == phase = PHASES_GAME_OVER

\* players[0] is the human player, the other seats are ComputerPlayers
IsHuman(p) == p = 0

\* a call of handleAITurn(aiPlayer) for the player of a seat, made in a round
\* and suspended at its first delay.  `at` is the delay the call is suspended
\* at: "thinking" (800), "laid" (500, after a lay), "hit" (400, after a hit),
\* "drawing" (400, before the draw), "drawn" (600), "discarding" (400, before
\* the discard); or "returned", or "failed" when an exception ended it.
\* `block` is "start" before the draw and "action" after it; lays and hits are
\* what is left of spreadsToLay and hits; source is drawSource; card holds
\* cardToDiscard
NewRoutine(seat, round) ==
  [seat |-> seat, round |-> round, at |-> "thinking", block |-> "start", lays |-> << >>,
   hits |-> << >>, source |-> "deck", card |-> << >>]

\* the operation that returns has emitted turnStart: endTurn did, or the deal
\* with no initial tonk
TurnStarts ==
  /\ lastResult' # "throw"
  /\ phase' = PHASES_START_OF_TURN
  /\ \/ lastOp' = "discard"
     \/ lastOp' \in {"initialize", "startNextRound"} /\ pc' = "idle"

\* the listener of turnStart: handleAITurn is called for a computer player
\* and runs to its first delay
Spawned(routines) ==
  IF TurnStarts /\ ~IsHuman(currentPlayerIndex')
  THEN Append(routines, NewRoutine(currentPlayerIndex', roundNumber'))
  ELSE routines

\* routine j is suspended again, has returned or has failed
Moved(j, r, oldSpreads) ==
  ui' = [routines |-> [ui.routines EXCEPT ![j] = r], oldSpreads |-> oldSpreads]

\* a step of a routine that calls no operation of the game
NoCall == UNCHANGED << gameVars, lastOp, lastResult, args, eventVars >>

\* laySpread(cards) does not throw
LayAccepted(cs) == LayPhaseOk /\ ValidateType(cs) # "invalid"

\* hit.spread: a spread of the table, or of the table of a round before
SpreadOf(hit) ==
  IF hit.round = roundNumber THEN spreadsOnTable[hit.spread]
  ELSE ui.oldSpreads[hit.round][hit.spread]

\* aiPlayer.hasCard(hit.card), and hitSpread(hit.card, hit.spread) does not throw
HitAccepted(h, hit) ==
  Contains(h, hit.card) /\ HitPhaseOk /\ CanAddCard(SpreadOf(hit), hit.card)

\* hitSpread(card, spread) with a spread of a round before, which is not on
\* the table
HitSpreadOffTable(c, sp) ==
  /\ pc = "idle"
  /\ IF ~HitPhaseOk THEN Throws
     ELSE IF ~CanAddCard(sp, c) THEN Throws
     ELSE LET left == RemoveCard(hand[currentPlayerIndex], c)
          IN /\ hand' = [hand EXCEPT ![currentPlayerIndex] = left]
             /\ turnActions' = Append(turnActions, "hit")
             /\ TonkIfEmpty(left)
             /\ UNCHANGED << cards, discardPile, spreadsOnTable, bettingVars, matchVars,
                             currentPlayerIndex, hasDrawnThisTurn, pc, redealDepth,
                             turnsPlayed >>
             /\ Returned("hitSpread", "ok")

\* getTopDiscard(), then decideDraw(discardTop): 'deck' with an empty pile
DrawSource(h) ==
  IF discardPile = << >> THEN "deck" ELSE DecideDraw(h, discardPile[Len(discardPile)])

\* the discard step of handleAITurn: with cards in the hand and the round not
\* over the card is chosen and the routine waits; otherwise it returns
ToDiscard(j, r) ==
  /\ NoCall
  /\ IF hand[r.seat] # << >> /\ ~IsGameOver
     THEN Moved(j, [r EXCEPT !.at = "discarding", !.card = << DecideDiscard(hand[r.seat]) >>],
                ui.oldSpreads)
     ELSE Moved(j, [r EXCEPT !.at = "returned"], ui.oldSpreads)

\* proceedToDraw(), outside any try, then the draw is decided
ToDraw(j, r) ==
  /\ ProceedToDraw
  /\ IF lastResult' = "throw" THEN Moved(j, [r EXCEPT !.at = "failed"], ui.oldSpreads)
     ELSE Moved(j, [r EXCEPT !.at = "drawing", !.source = DrawSource(hand[r.seat])],
                ui.oldSpreads)

\* the loop over hits from its next element: the hits that are not held or
\* that throw are skipped, the first one accepted is made and the routine
\* waits; with none, the routine goes on to the draw or to the discard
NextHit(j, r, hits) ==
  IF \E k \in 1 .. Len(hits) : HitAccepted(hand[r.seat], hits[k])
  THEN LET k == FirstIndex(hits, LAMBDA x : HitAccepted(hand[r.seat], x))
           next == [r EXCEPT !.at = "hit", !.hits = SubSeq(hits, k + 1, Len(hits))]
       IN IF hits[k].round = roundNumber
          THEN /\ HitSpread(hits[k].card, hits[k].spread)
               /\ Moved(j, next, ui.oldSpreads)
          ELSE /\ HitSpreadOffTable(hits[k].card, SpreadOf(hits[k]))
               /\ Moved(j, next, [ui.oldSpreads EXCEPT ![hits[k].round][hits[k].spread] =
                                                         AddCard(@, hits[k].card)])
  ELSE IF r.block = "start" THEN ToDraw(j, r) ELSE ToDiscard(j, r)

\* the loop over spreadsToLay from its next element: the spreads that throw
\* are skipped, the first one accepted is laid and the routine waits; with
\* none, the hits are looked for
NextLay(j, r, lays) ==
  IF \E k \in 1 .. Len(lays) : LayAccepted(lays[k])
  THEN LET k == FirstIndex(lays, LayAccepted)
       IN /\ LaySpread(lays[k])
          /\ Moved(j, [r EXCEPT !.at = "laid", !.lays = SubSeq(lays, k + 1, Len(lays))],
                   ui.oldSpreads)
  ELSE NextHit(j, [r EXCEPT !.lays = << >>],
               FindHitOpportunities(hand[r.seat], spreadsOnTable, roundNumber))

\* spreadInfo.cards of every spread of findAllSpreadsToLay()
SpreadsToLay(h) ==
  LET spreads == FindAllSpreadsToLay(h) IN [k \in 1 .. Len(spreads) |-> spreads[k].cards]

\* showGameOver, the listener of gameOver, has not returned yet
Showing == IsGameOver /\ lastOp # "checkMatchEnd"

\* handleAITurn resumed after the delay it is suspended at, up to its next
\* delay, its return or the exception that ends it
Resume(j) ==
  LET r == ui.routines[j]
      h == hand[r.seat]
  IN /\ pc = "idle"
     /\ ~Showing
     /\ IF r.at = "thinking"
        THEN IF phase = PHASES_START_OF_TURN
             THEN IF ShouldKnock(h)
                  THEN Knock /\ Moved(j, [r EXCEPT !.at = "returned"], ui.oldSpreads)
                  ELSE NextLay(j, r, SpreadsToLay(h))
             ELSE NoCall /\ Moved(j, [r EXCEPT !.at = "drawing", !.source = DrawSource(h)],
                                  ui.oldSpreads)
        ELSE IF r.at = "laid"
        THEN IF IsGameOver THEN NoCall /\ Moved(j, [r EXCEPT !.at = "returned"], ui.oldSpreads)
             ELSE NextLay(j, r, r.lays)
        ELSE IF r.at = "hit"
        THEN IF IsGameOver THEN NoCall /\ Moved(j, [r EXCEPT !.at = "returned"], ui.oldSpreads)
             ELSE NextHit(j, r, r.hits)
        ELSE IF r.at = "drawing"
        THEN /\ IF r.source = "discard" THEN DrawFromDiscard ELSE DrawFromDeck
             /\ Moved(j, [r EXCEPT !.at = IF lastResult' = "throw" THEN "failed" ELSE "drawn"],
                      ui.oldSpreads)
        ELSE IF r.at = "drawn"
        THEN NextLay(j, [r EXCEPT !.block = "action"], SpreadsToLay(h))
        ELSE /\ r.at = "discarding"
             /\ Discard(r.card[1])
             /\ ui' = [ui EXCEPT !.routines =
                         Spawned([@ EXCEPT ![j].at = IF lastResult' = "throw" THEN "failed"
                                                    ELSE "returned"])]

\* new GameUI(game): bindGameEvents registers the listeners
BindGameEvents ==
  /\ ~Bound
  /\ eventListeners' = [eventListeners EXCEPT !["turnStart"] = Append(@, "handleAITurn"),
                                               !["gameOver"] = Append(@, "showGameOver")]
  /\ UNCHANGED << gameVars, lastOp, lastResult, args, delivered, ui >>

\* startGame(numPlayers)
StartGame ==
  /\ Bound
  /\ phase = PHASES_PRE_GAME
  /\ \E n \in PlayerCounts : \E deck \in UiDecks[n] : Initialize(n, deck)
  /\ ui' = [ui EXCEPT !.routines = Spawned(@)]

\* showGameOver runs inside the operation that ended the round, as the
\* listener of gameOver: awardPot, applyRoundScoring, checkMatchEnd
ShowGameOver ==
  /\ Bound
  /\ Showing
  /\ IF lastOp = "awardPot" THEN ApplyRoundScoring
     ELSE IF lastOp = "applyRoundScoring" THEN CheckMatchEnd
     ELSE AwardPot(winner)
  /\ UNCHANGED ui

\* the Continue button of the game-over modal, shown while the match has not
\* ended: startNextRound()
ContinueRound ==
  /\ Bound
  /\ IsGameOver
  /\ lastOp = "checkMatchEnd"
  /\ matchWinner = NoPlayer
  /\ roundNumber < MaxRounds
  /\ \E deck \in UiDecks[numPlayers] : StartNextRound(deck)
  /\ ui' = [routines |-> Spawned(ui.routines),
            oldSpreads |-> Append(ui.oldSpreads, spreadsOnTable)]

\* the buttons of the human player are enabled in the turn of seat 0
HumanTurn ==
  Bound /\ pc = "idle" /\ numPlayers > 0 /\ IsHuman(currentPlayerIndex) /\ turnsPlayed < MaxUiTurns

\* no call of handleAITurn is suspended
Quiet == \A j \in 1 .. Len(ui.routines) : ui.routines[j].at \in {"returned", "failed"}

\* the steps of a game played through GameUI, but for the Continue button
UiSteps ==
  \/ BindGameEvents
  \/ StartGame
  \/ ShowGameOver
  \/ HumanTurn /\ KnockPhaseOk /\ Knock /\ UNCHANGED ui
  \/ HumanTurn /\ ProceedPhaseOk /\ ProceedToDraw /\ UNCHANGED ui
  \/ HumanTurn /\ DrawPhaseOk /\ cards # << >> /\ DrawFromDeck /\ UNCHANGED ui
  \/ HumanTurn /\ DrawPhaseOk /\ discardPile # << >> /\ DrawFromDiscard /\ UNCHANGED ui
  \/ HumanTurn /\ LayPhaseOk
       /\ \E set \in HeldSpreads(CurrentHand) : LaySpread(AscSeq(set))
       /\ UNCHANGED ui
  \/ HumanTurn /\ DiscardPhaseOk
       /\ \E i \in 1 .. Len(CurrentHand) : Discard(CurrentHand[i])
       /\ ui' = [ui EXCEPT !.routines = Spawned(@)]
  \/ Bound /\ \E j \in 1 .. Len(ui.routines) : Resume(j)

\* a game played through GameUI; the next round is started from the
\* game-over modal at any time
NextUi == UiSteps \/ ContinueRound

SpecUi == Init /\ [][NextUi]_vars

\* a game played through GameUI in which the Continue button is pressed only
\* once every call of handleAITurn has returned or failed
NextTurn == UiSteps \/ (Quiet /\ ContinueRound)

SpecTurn == Init /\ [][NextTurn]_vars

\* ---------------------------------------------------------------- claims
\* the seats of the game in progress
Players == Seats(numPlayers)

\* the call threw and the game is as it was
Rejected == lastResult' = "throw" /\ UNCHANGED gameVars

\* the state is the one initialize or startNextRound returned in
JustDealt == lastOp \in {"initialize", "startNextRound"} /\ pc = "idle"

\* C1: in every state reached by accepted Game operations, the draw pile, the
\* discard pile, the hands and the table spreads together hold each of the 52
\* cards exactly once
C1_EachCardExactlyOnce == (numPlayers > 0 /\ pc = "idle") => EachCardOnce

\* C2: laySpread with a card list that passes validate but holds a card that
\* is not in the current player's hand is rejected and changes no state
C2_LayForeignCardRejected ==
  [][numPlayers > 0 =>
       \A cs \in LayInputs(CurrentHand) :
         ( /\ LayPhaseOk
           /\ ValidateType(cs) # "invalid"
           /\ ~(Range(cs) \subseteq Range(CurrentHand))
           /\ LaySpread(cs) ) => Rejected]_vars

\* C3: hitSpread with a card the spread's canAddCard accepts but that is not
\* in the current player's hand is rejected and changes no state
C3_HitForeignCardRejected ==
  [][numPlayers > 0 =>
       \A ci \in HitInputs(CurrentHand) :
         ( /\ HitPhaseOk
           /\ CanAddCard(spreadsOnTable[ci[2]], ci[1])
           /\ ~Contains(CurrentHand, ci[1])
           /\ HitSpread(ci[1], ci[2]) ) => Rejected]_vars

\* C4: each play operation called outside its allowed phase throws and leaves
\* the whole game state unchanged: proceedToDraw and knock are allowed only in
\* START_OF_TURN, drawFromDeck and drawFromDiscard only in DRAW, discard only
\* in ACTION, laySpread and hitSpread only in START_OF_TURN or ACTION
C4_OutsidePhaseThrows ==
  [][ /\ (phase # PHASES_START_OF_TURN /\ ProceedToDraw) => Rejected
      /\ (phase # PHASES_START_OF_TURN /\ Knock) => Rejected
      /\ (phase # PHASES_DRAW /\ DrawFromDeck) => Rejected
      /\ (phase # PHASES_DRAW /\ DrawFromDiscard) => Rejected
      /\ (numPlayers > 0 /\ phase # PHASES_ACTION) =>
           (Rejected \/ \A c \in DiscardInputs(CurrentHand) : ~Discard(c))
      /\ (numPlayers > 0 /\ phase \notin {PHASES_START_OF_TURN, PHASES_ACTION}) =>
           \/ Rejected
           \/ /\ \A cs \in LayInputs(CurrentHand) : ~LaySpread(cs)
              /\ \A ci \in HitInputs(CurrentHand) : ~HitSpread(ci[1], ci[2]) ]_vars

\* a call was rejected in the DRAW phase, where only the phase check rejects
C4_Witness == phase = PHASES_DRAW /\ lastResult = "throw"

C6_CaughtWinner ==
  (lastOp = "knock" /\ winCondition = WIN_CAUGHT) =>
    /\ winner \in Players \ {currentPlayerIndex}
    /\ \A p \in Players : Points(winner) <= Points(p)
    /\ \A p \in Players \ {currentPlayerIndex} : Points(p) = Points(winner) => winner <= p

\* a knocker caught while two other players share the lowest points
C6_Witness ==
  /\ lastOp = "knock"
  /\ winCondition = WIN_CAUGHT
  /\ \E p \in Players \ {currentPlayerIndex, winner} : Points(p) = Points(winner)

C8_SeatZeroStarts ==
  (JustDealt /\ winCondition # WIN_INITIAL_TONK) =>
    (phase = PHASES_START_OF_TURN /\ currentPlayerIndex = 0)

C12_TonkOnEmptyHand ==
  /\ []((lastOp \in {"laySpread", "hitSpread"} /\ CurrentHand = << >>) =>
          /\ phase = PHASES_GAME_OVER
          /\ winCondition = WIN_TONK
          /\ winner = currentPlayerIndex)
  /\ [][(lastOp \in {"laySpread", "hitSpread"} /\ CurrentHand = << >>) =>
          \/ lastOp' \in {"initialize", "startNextRound"}
          \/ Rejected]_vars

\* a lay after the draw emptied the hand
C12_Witness ==
  /\ lastOp = "laySpread"
  /\ hasDrawnThisTurn
  /\ CurrentHand = << >>
  /\ phase = PHASES_GAME_OVER

\* the cards drawn that turnActions records
DrawsThisTurn == Cardinality({ i \in 1 .. Len(turnActions) : turnActions[i] = "draw" })

C14_OneDrawPerTurn ==
  /\ [](numPlayers > 0 =>
          /\ phase = PHASES_ACTION => (hasDrawnThisTurn /\ DrawsThisTurn = 1)
          /\ phase \in {PHASES_START_OF_TURN, PHASES_DRAW} =>
               (~hasDrawnThisTurn /\ DrawsThisTurn = 0))
  /\ [][ /\ (phase = PHASES_DRAW /\ phase' = PHASES_ACTION) =>
              \/ /\ cards # << >>
                 /\ cards' = SubSeq(cards, 1, Len(cards) - 1)
                 /\ discardPile' = discardPile
                 /\ hand' = [hand EXCEPT ![currentPlayerIndex] = @ \o << cards[Len(cards)] >>]
              \/ /\ discardPile # << >>
                 /\ discardPile' = SubSeq(discardPile, 1, Len(discardPile) - 1)
                 /\ cards' = cards
                 /\ hand' = [hand EXCEPT ![currentPlayerIndex] = @ \o << discardPile[Len(discardPile)] >>]
         /\ (numPlayers > 0 /\ lastOp' \notin {"initialize", "startNextRound"}) =>
              \A p \in Players : Len(hand'[p]) > Len(hand[p]) =>
                (p = currentPlayerIndex /\ phase = PHASES_DRAW /\ phase' = PHASES_ACTION)
         /\ (lastOp' = "discard" /\ lastResult' = "ok" /\ gameVars' # gameVars) =>
              (phase = PHASES_ACTION /\ hasDrawnThisTurn /\ DrawsThisTurn = 1) ]_vars

\* the turn passed to seat 1 after seat 0 drew the card flipped at the deal
C14_Witness ==
  /\ lastOp = "discard"
  /\ phase = PHASES_START_OF_TURN
  /\ currentPlayerIndex = 1
  /\ Len(hand[0]) = 5
  /\ Contains(hand[0], CardOf(S, 7))

\* C15: once the phase is GAME_OVER every play operation is rejected and
\* winner and winCondition stay unchanged until startNextRound or initialize
\* is called; startNextRound called in GAME_OVER always succeeds and leaves
\* the game in START_OF_TURN or GAME_OVER of a new round
C15_GameOverIsTerminal ==
  /\ [][phase = PHASES_GAME_OVER =>
          \/ Rejected
          \/ lastOp' = "initialize"
          \/ /\ lastOp' = "startNextRound"
             /\ roundNumber' = roundNumber + 1
             /\ pc' = "idle" => phase' \in {PHASES_START_OF_TURN, PHASES_GAME_OVER}]_vars
  /\ []((phase = PHASES_GAME_OVER /\ pc = "idle") =>
          ENABLED (\E deck \in ShuffledDecks[numPlayers] : StartNextRound(deck)))
  /\ []((JustDealt /\ lastOp = "startNextRound") =>
          phase \in {PHASES_START_OF_TURN, PHASES_GAME_OVER})

\* a call was rejected after a knock had ended the round
C15_Witness ==
  /\ phase = PHASES_GAME_OVER
  /\ lastOp = "knock"
  /\ lastResult = "throw"

\* C16: startNextRound is accepted only when the phase is GAME_OVER: called in
\* START_OF_TURN, DRAW or ACTION it is rejected and changes no state
C16_NextRoundOnlyAfterGameOver ==
  [][(numPlayers > 0 /\ phase \in {PHASES_START_OF_TURN, PHASES_DRAW, PHASES_ACTION}) =>
       \A deck \in ShuffledDecks[numPlayers] : StartNextRound(deck) => Rejected]_vars

\* C17: applyRoundScoring at GAME_OVER leaves the round winner's cumulative
\* match score unchanged and adds to every other player's cumulative match
\* score exactly that player's hand points, whatever the win condition
C17_RoundScoring ==
  [][(phase = PHASES_GAME_OVER /\ ApplyRoundScoring) =>
       /\ winner \in Players
       /\ winCondition \in {WIN_TONK, WIN_INITIAL_TONK, WIN_KNOCK, WIN_CAUGHT, WIN_STOCK_EMPTY}
       /\ matchScores'[winner] = matchScores[winner]
       /\ \A p \in Players \ {winner} :
            matchScores'[p] = matchScores[p] + CalculatePoints(hand[p])]_vars

\* a round that ended on the empty stock was scored
C17_Witness ==
  /\ lastOp = "applyRoundScoring"
  /\ winCondition = WIN_STOCK_EMPTY
  /\ matchScores[winner] = 0
  /\ \E p \in Players : matchScores[p] > 0

\* C18: checkMatchEnd returns true if and only if some player's cumulative
\* match score is at least 100, and then matchWinner is the player with the
\* lowest cumulative score, the earliest in seat order among ties; when it
\* returns false matchWinner is left unchanged
C18_MatchEnd ==
  [][CheckMatchEnd =>
       IF \E p \in Players : matchScores[p] >= 100
       THEN /\ lastResult' = "true"
            /\ matchWinner' \in Players
            /\ \A p \in Players :
                 \/ matchScores[matchWinner'] < matchScores[p]
                 \/ matchScores[matchWinner'] = matchScores[p] /\ matchWinner' <= p
       ELSE /\ lastResult' = "false"
            /\ matchWinner' = matchWinner]_vars

\* the match ended with two players sharing the lowest score
C18_Witness ==
  /\ lastOp = "checkMatchEnd"
  /\ lastResult = "true"
  /\ \E p \in Players \ {matchWinner} : matchScores[p] = matchScores[matchWinner]

\* C19: for every list of distinct cards validate returns type book if and
\* only if there are 3 or 4 cards all of one rank, type run if and only if
\* there are at least 3 cards of one suit whose rank indices, sorted, each
\* increase by exactly 1 with no wrap from K to A, and invalid otherwise; no
\* list satisfies both rules
C19_Validate ==
  (lastOp = "validate") =>
    LET cs == args[1]
        ranks == {cs[i] % 13 : i \in 1 .. Len(cs)}
        suits == {cs[i] \div 13 : i \in 1 .. Len(cs)}
        bookRule == Len(cs) \in {3, 4} /\ Cardinality(ranks) = 1
        runRule == /\ Len(cs) >= 3
                   /\ Cardinality(suits) = 1
                   /\ \E lo \in 0 .. 12 : ranks = lo .. (lo + Len(cs) - 1)
    IN /\ Cardinality(Range(cs)) = Len(cs)
       /\ lastResult = "book" <=> bookRule
       /\ lastResult = "run" <=> runRule
       /\ lastResult = "invalid" <=> (~bookRule /\ ~runRule)
       /\ ~(bookRule /\ runRule)

\* a run passed out of order was validated
C19_Witness ==
  /\ lastOp = "validate"
  /\ lastResult = "run"
  /\ RankIndex(args[1][1]) > RankIndex(args[1][2])

\* C20: canAddCard on a book is true if and only if the book has fewer than 4
\* cards and the card's rank is the book's rank; on a run it is true if and
\* only if the card's suit is the run's suit and its rank index is exactly one
\* below the run's lowest or exactly one above its highest, whoever owns the
\* spread
C20_CanAddCard ==
  (lastOp = "canAddCard") =>
    LET sp == args[1]
        c == args[2]
        ranks == {sp.cards[i] % 13 : i \in 1 .. Len(sp.cards)}
        suits == {sp.cards[i] \div 13 : i \in 1 .. Len(sp.cards)}
        lowest == CHOOSE r \in ranks : \A q \in ranks : r <= q
        highest == CHOOSE r \in ranks : \A q \in ranks : r >= q
    IN /\ sp.type \in {"book", "run"}
       /\ sp.type = "book" =>
            (lastResult = "true" <=> (Len(sp.cards) < 4 /\ ranks = {c % 13}))
       /\ sp.type = "run" =>
            (lastResult = "true" <=>
               /\ suits = {c \div 13}
               /\ c % 13 = lowest - 1 \/ c % 13 = highest + 1)

\* a card one above the highest rank of a run held out of order was accepted
C20_Witness ==
  /\ lastOp = "canAddCard"
  /\ lastResult = "true"
  /\ args[1].type = "run"
  /\ args[1].owner = 1
  /\ RankIndex(args[1].cards[1]) > RankIndex(args[1].cards[Len(args[1].cards)])
  /\ args[2] = CardOf(S, 3)

C22_RunsAscending ==
  \A i \in 1 .. Len(spreadsOnTable) :
    spreadsOnTable[i].type = "run" =>
      \A k \in 2 .. Len(spreadsOnTable[i].cards) :
        RankIndex(spreadsOnTable[i].cards[k - 1]) < RankIndex(spreadsOnTable[i].cards[k])

\* C23: for every hand of distinct cards findPossibleSpreads returns exactly
\* one book candidate for each rank held at least 3 times and, for each suit,
\* every maximal sequence of at least 3 consecutive rank indices as a run
\* candidate, and nothing else; each candidate passes Spread.validate with the
\* same type
C23_PossibleSpreads ==
  (lastOp = "findPossibleSpreads") =>
    LET held == Range(args[1])
        found == lastResult
        OfType(t) == { k \in 1 .. Len(found) : found[k].type = t }
        books == { { c \in held : c % 13 = r } :
                     r \in { q \in 0 .. 12 : Cardinality({ c \in held : c % 13 = q }) >= 3 } }
        starts == { c \in held : c % 13 = 0 \/ c - 1 \notin held }
        Stretch(c) == { k \in 0 .. (12 - (c % 13)) : \A j \in 0 .. k : c + j \in held }
        maximal == { { c + k : k \in Stretch(c) } :
                       c \in { d \in starts : Cardinality(Stretch(d)) >= 3 } }
    IN /\ \A k \in 1 .. Len(found) :
            /\ found[k].type \in {"book", "run"}
            /\ Cardinality(Range(found[k].cards)) = Len(found[k].cards)
            /\ ValidateType(found[k].cards) = found[k].type
       /\ { Range(found[k].cards) : k \in OfType("book") } = books
       /\ Cardinality(OfType("book")) = Cardinality(books)
       /\ { Range(found[k].cards) : k \in OfType("run") } = maximal
       /\ Cardinality(OfType("run")) = Cardinality(maximal)

\* a hand with a book and a run sharing a card: both were returned
C23_Witness ==
  /\ lastOp = "findPossibleSpreads"
  /\ Len(lastResult) = 2
  /\ lastResult[1].type = "book"
  /\ lastResult[2].type = "run"
  /\ Len(args[1]) = 5

\* C30: shouldKnock returns true if and only if the hand's points are at most
\* 3, or the hand's points are 4 or 5 and either findPossibleSpreads(hand) is
\* empty or the hand has at most 2 cards
C30_ShouldKnock ==
  (lastOp = "shouldKnock") =>
    LET h == args[1]
        Value(c) == IF c % 13 = 0 THEN 1 ELSE IF c % 13 >= 10 THEN 10 ELSE (c % 13) + 1
        Sum[k \in 0 .. Len(h)] == IF k = 0 THEN 0 ELSE Sum[k - 1] + Value(h[k])
        points == Sum[Len(h)]
    IN lastResult = "true" <=>
         \/ points <= 3
         \/ /\ points \in {4, 5}
            /\ FindPossibleSpreads(h) = << >> \/ Len(h) <= 2

\* a hand of 5 points holding a book of aces: no knock
C30_Witness ==
  /\ lastOp = "shouldKnock"
  /\ lastResult = "false"
  /\ CalculatePoints(args[1]) = 5
  /\ FindPossibleSpreads(args[1]) # << >>

\* C24: at the start of every round (initialize, startNextRound and each
\* redeal) collectAntes deducts min(10, chips) from every player and sets pot
\* to the sum of the amounts deducted in that collection; no player's chips
\* ever become negative through antes or raises of positive amounts
C24_Antes ==
  /\ [][(lastResult' \in {"ok", "running"}
          /\ lastOp' \in {"initialize", "startNextRound", "collectAntes"}) =>
         LET Before(p) == IF pc = "idle" /\ lastOp' = "initialize" THEN 1000 ELSE chips[p]
             Ante(p) == IF Before(p) < 10 THEN Before(p) ELSE 10
             Paid[k \in 0 .. numPlayers'] == IF k = 0 THEN 0 ELSE Paid[k - 1] + Ante(k - 1)
         IN /\ \A p \in 0 .. (numPlayers' - 1) : chips'[p] = Before(p) - Ante(p)
            /\ pot' = Paid[numPlayers']]_vars
  /\ [](\A p \in Players : chips[p] >= 0)

\* a round started with a player who could not pay the whole ante
C24_Witness ==
  /\ lastOp = "startNextRound"
  /\ pc = "idle"
  /\ pot < ANTE_AMOUNT * numPlayers
  /\ \E p \in Players : chips[p] = 0 /\ currentBet[p] \in 1 .. (ANTE_AMOUNT - 1)

\* C25: collectAntes, placeBet and awardPot change only chips, currentBet, pot
\* and highestBet: phase, currentPlayerIndex, winner, winCondition, every
\* hand, both deck piles, the table spreads and the match scores are
\* unchanged, so the play operations accepted are the same before and after
C25_BettingFrame ==
  [][(lastResult' = "ok" /\ lastOp' \in {"collectAntes", "placeBet", "awardPot"}) =>
       /\ UNCHANGED << phase, currentPlayerIndex, winner, winCondition, hand, cards,
                       discardPile, spreadsOnTable, matchScores >>
       /\ ProceedPhaseOk' = ProceedPhaseOk
       /\ DrawPhaseOk' = DrawPhaseOk
       /\ LayPhaseOk' = LayPhaseOk
       /\ HitPhaseOk' = HitPhaseOk
       /\ DiscardPhaseOk' = DiscardPhaseOk
       /\ KnockPhaseOk' = KnockPhaseOk]_vars

\* the pot was awarded to the winner of a round
C25_Witness ==
  /\ lastOp = "awardPot"
  /\ lastResult = "ok"
  /\ phase = PHASES_GAME_OVER
  /\ pot = 0
  /\ winner \in Players
  /\ chips[winner] > STARTING_CHIPS

\* C26: placeBet is accepted only while the phase is ACTION; called in
\* START_OF_TURN, DRAW or GAME_OVER it is rejected and changes neither pot,
\* chips, currentBet nor highestBet
C26_BetOnlyInAction ==
  [][(numPlayers > 0 /\ phase \in {PHASES_START_OF_TURN, PHASES_DRAW, PHASES_GAME_OVER}) =>
       \A p \in Players, amount \in RaiseInputs : PlaceBet(p, amount) => Rejected]_vars

Suspended == { j \in 1 .. Len(ui.routines) : ui.routines[j].at \notin {"returned", "failed"} }

\* C28: every AI turn run by handleAITurn ends either with the round in
\* GAME_OVER or with its single discard, which passes the turn to the next
\* seat: no step before the last one discards, the call never returns or fails
\* leaving the round in START_OF_TURN, DRAW or ACTION for that player, and a
\* step made while the round is GAME_OVER changes nothing of the game
C28_AiTurnEnds ==
  [][\A j \in 1 .. Len(ui.routines) :
       Resume(j) =>
         LET r == ui.routines[j]
         IN /\ ui'.routines[j].at \in {"returned", "failed"} =>
                 \/ phase' = PHASES_GAME_OVER
                 \/ /\ r.at = "discarding"
                    /\ lastOp' = "discard"
                    /\ lastResult' = "ok"
                    /\ discardPile' = Append(discardPile, r.card[1])
                    /\ hand'[r.seat] = RemoveCard(hand[r.seat], r.card[1])
                    /\ phase' = PHASES_START_OF_TURN
                    /\ currentPlayerIndex' = (r.seat + 1) % numPlayers
            /\ r.at # "discarding" => Len(discardPile') <= Len(discardPile)
            /\ IsGameOver => UNCHANGED gameVars]_vars

\* C29: every change an AI turn routine makes to the game is made in the
\* round in which the routine was started, whenever the next round is started
\* from the game-over modal, and at most one routine is suspended at a time
C29_RoutineStaysInItsRound ==
  /\ [][\A j \in 1 .. Len(ui.routines) :
          (Resume(j) /\ gameVars' # gameVars) => ui.routines[j].round = roundNumber]_vars
  /\ [](Cardinality(Suspended) <= 1)

\* C31: for every non-empty hand decideDiscard returns a card of that hand: a
\* card of the highest value among the unprotected cards, where a card is
\* protected iff another card of the hand has its rank or another card of the
\* hand of its suit is at most 2 rank indices away; when every card is
\* protected, a card of the highest value of the whole hand
C31_DecideDiscard ==
  (lastOp = "decideDiscard" /\ args[1] # << >>) =>
    LET held == Range(args[1])
        Value(c) == IF c % 13 = 0 THEN 1 ELSE IF c % 13 >= 10 THEN 10 ELSE (c % 13) + 1
        Protected(c) == \E d \in held \ {c} :
                          \/ d % 13 = c % 13
                          \/ d \div 13 = c \div 13 /\ d - c \in {-2, -1, 1, 2}
        unprotected == { c \in held : ~Protected(c) }
        pool == IF unprotected # {} THEN unprotected ELSE held
    IN /\ lastResult \in pool
       /\ \A c \in pool : Value(c) <= Value(lastResult)

\* a hand of 4 cards holding two jacks, protected by each other, and the
\* nine of spades with no card near it: the nine was chosen
C31_Witness ==
  /\ lastOp = "decideDiscard"
  /\ Len(args[1]) = 4
  /\ { CardOf(H, 10), CardOf(D, 10) } \subseteq Range(args[1])
  /\ lastResult = CardOf(S, 8)

\* C32: findAllSpreadsToLay returns, for every hand, finitely many spreads
\* that share no card and each pass Spread.validate; each one is a candidate
\* of findPossibleSpreads on the hand without the cards of the spreads before
\* it and has the most points of those candidates, and findPossibleSpreads
\* finds nothing in the cards left over; laySpread, which rejects a list only
\* when Spread.validate does, accepts each of them
C32_AllSpreadsToLay ==
  (lastOp = "findAllSpreadsToLay") =>
    LET h == args[1]
        found == lastResult
        CardsOf(k) == Range(found[k].cards)
        Before(k) == UNION { CardsOf(j) : j \in 1 .. (k - 1) }
        Left(k) == SelectSeq(h, LAMBDA c : c \notin Before(k))
        Candidates(k) == FindPossibleSpreads(Left(k))
    IN /\ Len(found) * MIN_SPREAD_SIZE <= Len(h)
       /\ \A k \in 1 .. Len(found) :
            /\ ValidateType(found[k].cards) \in {"book", "run"}
            /\ ValidateType(found[k].cards) = found[k].type
            /\ CardsOf(k) \subseteq Range(h)
            /\ \A j \in 1 .. (k - 1) : CardsOf(j) \cap CardsOf(k) = {}
            /\ \E i \in 1 .. Len(Candidates(k)) : Candidates(k)[i] = found[k]
            /\ \A i \in 1 .. Len(Candidates(k)) :
                 CalculatePoints(Candidates(k)[i].cards) <= CalculatePoints(found[k].cards)
       /\ Candidates(Len(found) + 1) = << >>

\* a hand of 6 cards holding two runs: both were returned; and no book,
\* since a book of jacks would have been chosen first and broken both runs
C32_Witness ==
  /\ lastOp = "findAllSpreadsToLay"
  /\ Len(args[1]) = CARDS_PER_PLAYER + 1
  /\ Len(lastResult) = 2
  /\ lastResult[1].type = "run"
  /\ lastResult[2].type = "run"

\* C33: decideDraw(discardTop) returns 'discard' if and only if discardTop is
\* not null and (a) the hand with it has strictly more findPossibleSpreads
\* candidates than the hand, or (b) two cards of the hand have its rank, or
\* two cards of the hand of its suit and the card itself have rank indices
\* spanning at most 2, or (c) its value is at most 3 and a card of the hand
\* has its rank; in every other case it returns 'deck'
C33_DecideDraw ==
  (lastOp = "decideDraw") =>
    LET h == args[1]
        pile == args[2]
        held == Range(h)
        Value(c) == IF c % 13 = 0 THEN 1 ELSE IF c % 13 >= 10 THEN 10 ELSE (c % 13) + 1
        SameRank(c) == { d \in held : d % 13 = c % 13 }
        SameSuit(c) == { d \in held : d \div 13 = c \div 13 }
        Span(set) == CHOOSE n \in 0 .. 12 :
                       /\ \E a, b \in set : a - b = n
                       /\ \A a, b \in set : a - b <= n
        Takes(c) ==
          \/ Len(FindPossibleSpreads(h \o << c >>)) > Len(FindPossibleSpreads(h))
          \/ Cardinality(SameRank(c)) >= 2
          \/ \E d, e \in SameSuit(c) : d # e /\ Span({c, d, e}) <= 2
          \/ Value(c) <= 3 /\ SameRank(c) # {}
    IN /\ lastResult \in {"discard", "deck"}
       /\ lastResult = "discard" <=> (pile # << >> /\ Takes(pile[1]))

C35_ChipsConserved ==
  (numPlayers > 0 /\ pc = "idle") =>
    LET seats == 0 .. (numPlayers - 1)
        Total[k \in 0 .. numPlayers] == IF k = 0 THEN 0 ELSE Total[k - 1] + chips[k - 1]
    IN Total[numPlayers] + pot = numPlayers * STARTING_CHIPS

\* C36: in every state between operations, once initialize has returned with
\* at least 2 players, the phase is GAME_OVER if and only if winner and
\* winCondition are both set; in START_OF_TURN, DRAW and ACTION both are
\* null; and the phase is never PRE_GAME, INITIAL_TONK_CHECK or DISCARD
C36_PhaseAndWinner ==
  (numPlayers >= MIN_PLAYERS /\ pc = "idle") =>
    /\ phase \notin {PHASES_PRE_GAME, PHASES_INITIAL_TONK_CHECK, PHASES_DISCARD}
    /\ phase = PHASES_GAME_OVER <=> (winner # NoPlayer /\ winCondition # NoCondition)
    /\ phase \in {PHASES_START_OF_TURN, PHASES_DRAW, PHASES_ACTION} =>
         (winner = NoPlayer /\ winCondition = NoCondition)

\* a round has ended and startNextRound has dealt round 2 with no initial
\* tonk: the winner of the round before is gone
C36_Witness ==
  /\ lastOp = "startNextRound"
  /\ pc = "idle"
  /\ roundNumber = 2
  /\ phase = PHASES_START_OF_TURN
  /\ winner = NoPlayer
  /\ cards # << >>

\* C37: whenever the phase is START_OF_TURN or DRAW the discard pile is not
\* empty, so drawFromDiscard in the DRAW phase always gives a card to the
\* current player and moves to ACTION; the card is the one put on the pile
\* last: the pile changes only by a deal, which leaves the seed card alone on
\* it, by a discard, which puts a card of the current hand on top, and by a
\* draw from it, which takes the top card
C37_DiscardPileTop ==
  /\ []((numPlayers > 0 /\ pc = "idle" /\ phase \in {PHASES_START_OF_TURN, PHASES_DRAW})
          => discardPile # << >>)
  /\ [][/\ (DrawFromDiscard /\ phase = PHASES_DRAW) =>
             /\ lastResult' = "ok"
             /\ phase' = PHASES_ACTION
             /\ discardPile # << >>
             /\ hand'[currentPlayerIndex] =
                  Append(hand[currentPlayerIndex], discardPile[Len(discardPile)])
             /\ discardPile' = SubSeq(discardPile, 1, Len(discardPile) - 1)
        /\ (pc' = "idle" /\ discardPile' # discardPile) =>
             \/ lastOp' \in {"initialize", "startNextRound"} /\ Len(discardPile') = 1
             \/ /\ lastOp' = "discard"
                /\ \E c \in Range(hand[currentPlayerIndex]) :
                     /\ discardPile' = Append(discardPile, c)
                     /\ hand'[currentPlayerIndex] = RemoveCard(hand[currentPlayerIndex], c)
             \/ /\ lastOp' = "drawFromDiscard"
                /\ discardPile' = SubSeq(discardPile, 1, Len(discardPile) - 1)]_vars

\* the first player took the seed card and discarded; the second player took
\* that discard: the pile is empty in the ACTION phase
C37_Witness ==
  /\ lastOp = "drawFromDiscard"
  /\ lastResult = "ok"
  /\ turnsPlayed = 1
  /\ phase = PHASES_ACTION
  /\ discardPile = << >>
  /\ Len(hand[0]) = CARDS_PER_PLAYER
  /\ Len(hand[1]) = CARDS_PER_PLAYER + 1

TurnOps ==
  {"proceedToDraw", "drawFromDeck", "drawFromDiscard", "laySpread", "hitSpread",
   "discard", "knock"}

\* C39: during a round only the current player's hand changes: proceedToDraw,
\* drawFromDeck, drawFromDiscard, laySpread, hitSpread, discard and knock leave
\* the hand of every other player unchanged; knock and proceedToDraw change no
\* hand, pile or spread; and the endTurn() that ends a discard changes none
\* either, the step moving exactly the discarded card from the hand to the pile
C39_OnlyCurrentHand ==
  [][(pc = "idle" /\ pc' = "idle" /\ numPlayers > 0) =>
       /\ lastOp' \in TurnOps =>
            \A p \in Players \ {currentPlayerIndex} : hand'[p] = hand[p]
       /\ lastOp' \in {"knock", "proceedToDraw"} => UNCHANGED tableVars
       /\ (lastOp' = "discard" /\ currentPlayerIndex' # currentPlayerIndex) =>
            /\ \E c \in Range(hand[currentPlayerIndex]) :
                 /\ hand' = [hand EXCEPT ![currentPlayerIndex] =
                                           RemoveCard(hand[currentPlayerIndex], c)]
                 /\ discardPile' = Append(discardPile, c)
            /\ UNCHANGED << cards, spreadsOnTable >>]_vars

\* a knock after a turn has passed, in a game of three players whose hands are
\* all as dealt but for the first player's draw and discard
C39_Witness ==
  /\ lastOp = "knock"
  /\ lastResult = "ok"
  /\ numPlayers = 3
  /\ currentPlayerIndex = 1
  /\ phase = PHASES_GAME_OVER
  /\ \A p \in Players : Len(hand[p]) = CARDS_PER_PLAYER

\* C40: gameOver is emitted exactly once per round: between one deal
\* (initialize or startNextRound) and the next at most one gameOver is emitted;
\* it has been emitted when and only when the phase has become GAME_OVER, in
\* the step that makes the phase GAME_OVER; and winner and winCondition equal
\* the payload's winner and condition when it is delivered and afterwards
C40_GameOverOnce ==
  /\ [](IF pc = "idle" /\ phase = PHASES_GAME_OVER
        THEN gameOvers = << [winner |-> winner, condition |-> winCondition] >>
        ELSE gameOvers = << >>)
  /\ [][gameOvers' # gameOvers =>
          \/ gameOvers' = << >>
          \/ /\ Len(gameOvers') = 1
             /\ phase' = PHASES_GAME_OVER
             /\ gameOvers'[1] = [winner |-> winner', condition |-> winCondition']
             /\ phase # PHASES_GAME_OVER \/ lastOp' \in {"initialize", "startNextRound"}]_vars

\* the knock that ends the second round, the one gameOver since startNextRound
\* dealt it
C40_Witness ==
  /\ lastOp = "knock"
  /\ lastResult = "ok"
  /\ roundNumber = 2
  /\ phase = PHASES_GAME_OVER
  /\ Len(gameOvers) = 1
  /\ gameOvers[1].condition \in {WIN_KNOCK, WIN_CAUGHT}
====
